---- MODULE Spec2Model ----
(***************************************************************************)
(* SmartPathAI backend: the Oracle 11g compatibility backend               *)
(* (core/oracle_legacy_backend): the FETCH FIRST rewrite of the cursor     *)
(* wrapper and the sequence + trigger emulation of auto-increment columns. *)
(*                                                                         *)
(* Text.  A Python str is modelled as a sequence of lexemes.  A lexeme is  *)
(* one whitespace character (" " or "\n"), one punctuation mark, or a      *)
(* maximal run of word characters (\w+: a keyword, an identifier, a        *)
(* number).  Regular expressions are evaluated on that sequence exactly as *)
(* re.search evaluates them on the characters: leftmost match, \b from the *)
(* neighbouring lexemes, \s+ and [\w".]+ as maximal runs.                  *)
(***************************************************************************)
EXTENDS Integers, Sequences, FiniteSets, TLC

VARIABLES
    wrapper_call,   \* the call made to the OracleCursorWrapper
    pc,             \* "called" while that call runs, "returned" after it
    cursor_calls,   \* the calls self.cursor (the driver's cursor) received
    table,          \* rows of table T in the database, in retrieval order
    db_tables,      \* data dictionary: the names of the user's tables
    sequences,      \* data dictionary: sequence name -> its next value
    triggers,       \* data dictionary: trigger name -> its definition
    process,        \* the Python process the schema editor runs in
    last_op,        \* the schema editor's last operation and its outcome
    before,         \* sequences and triggers as that operation found them
    names_seen,     \* the names _sequence_and_trigger_names has returned
    names_of,       \* its value for each pair, as the running process computes it
    op_log,         \* the editor's calls and their outcomes, where a run records them
    table_rows,     \* the rows of each table of db_tables, in insertion order
    last_insert,    \* the last INSERT: the values given, the row made, the error
    high_key,       \* per table, the highest key a trigger has assigned to id
    _API_KEY,       \* gemini: the GEMINI_API_KEY the module was loaded with
    _client,        \* gemini: the lazily made client, "None" until made
    gemini_call,    \* gemini: the function called and its arguments
    gemini_pc,      \* gemini: "idle", "attempt" (in the retry loop), "done"
    attempt,        \* _generate_with_retry: the loop variable
    delay,          \* _generate_with_retry: the backoff, in tenths of a second
    calls,          \* the calls of generate_content the current call has made
    waits,          \* the arguments of time.sleep in the current call, in tenths
    last_error,     \* the last exception generate_content raised
    retry_outcome,  \* what _generate_with_retry returned or raised to its caller
    result,         \* what the function called returned or raised
    users,          \* views: the rows of UserProfile, in insertion order
    stored,         \* views: the rows of Course and of Certification
    requests,       \* views: per worker thread, the request it is handling
    last_request,   \* views: the last request an auth_required view received
    profile,        \* progress: the UserProfile row of the user who is logged in
    activities,     \* progress: that user's UserActivity rows, in insertion order
    quiz_results,   \* progress: that user's QuizResult rows (their scores)
    today,          \* progress: the server's date, in days
    last_response,  \* progress: the response to the user's last request
    mongo_user,     \* flask: mongo.db.user in each of two runs, email -> document
    forgot_response,\* flask: the last forgot_password request and its response per run
    login_attempts, \* flask: login_attempts, IP -> the times of its failed attempts
    now,            \* flask: time.time(), in seconds
    auth_response   \* flask: the response of auth to its last request

cursor_vars == <<wrapper_call, pc, cursor_calls, table>>
rows_vars == <<table_rows, last_insert, high_key>>
schema_vars == <<db_tables, sequences, triggers, process, last_op, before, names_seen,
                 names_of>>
gemini_vars == <<_API_KEY, _client, gemini_call, gemini_pc, attempt, delay, calls,
                 waits, last_error, retry_outcome, result>>
views_vars == <<users, stored, requests, last_request>>
oracle_vars == <<cursor_vars, schema_vars, op_log, rows_vars>>
progress_vars == <<profile, activities, quiz_results, today, last_response>>
flask_vars == <<mongo_user, forgot_response, login_attempts, now, auth_response>>
app_vars == <<gemini_vars, views_vars, progress_vars, flask_vars>>
vars == <<wrapper_call, pc, cursor_calls, table,
          db_tables, sequences, triggers, process, last_op, before, names_seen,
          names_of, op_log, table_rows, last_insert, high_key, app_vars>>

----------------------------------------------------------------------------
(* Bounds of the model *)

\* FETCH FIRST n ROWS ONLY is generated for n in 0..MaxLimit
MaxLimit == 2
\* a table holds at most MaxRows rows
MaxRows == 2
\* the schema editor runs in processes 1..MaxProcesses
MaxProcesses == 2
\* a recorded run makes at most MaxOps calls of the schema editor
MaxOps == 6
\* a table holds at most MaxInserts inserted rows
MaxInserts == 2
\* an INSERT gives a column a value of 1..MaxKey
MaxKey == 2
\* a sequence hands out the values 1..MaxNextVal
MaxNextVal == 2

----------------------------------------------------------------------------
(* Lexemes *)

SP == " "
NL == "\n"
DQ == "\""

\* \s
IsSpace(x) == x \in {SP, NL}

\* lexemes that are not made of word characters (\w); "%s" is the DB-API
\* placeholder, which the statements of the model always follow by a
\* non-word lexeme
NonWordLexemes == {SP, NL, "*", "(", ")", "=", "<=", ",", ".", DQ, "%s"}

\* a run of \w characters
IsWord(x) == x \notin NonWordLexemes

Digits == {ToString(n) : n \in 0..MaxLimit}

\* \d+
IsDigits(x) == x \in Digits

\* [\w".]
IsTableRefChar(x) == IsWord(x) \/ x \in {DQ, "."}

\* re.IGNORECASE: the lexemes the patterns name, folded to upper case
Upper(x) ==
    CASE x \in {"fetch", "Fetch"} -> "FETCH"
      [] x = "first" -> "FIRST"
      [] x = "rows" -> "ROWS"
      [] x = "only" -> "ONLY"
      [] x = "order" -> "ORDER"
      [] x = "by" -> "BY"
      [] x = "where" -> "WHERE"
      [] x = "from" -> "FROM"
      [] OTHER -> x

\* \b before lexeme i and after lexeme i (lexeme i being a word)
BoundaryBefore(s, i) == i = 1 \/ ~IsWord(s[i - 1])
BoundaryAfter(s, i) == i = Len(s) \/ ~IsWord(s[i + 1])

\* the smallest element of a non-empty set of integers
Min(S) == CHOOSE m \in S : \A n \in S : m <= n

\* str.rstrip()
RECURSIVE RStrip(_)
RStrip(s) ==
    IF s # << >> /\ IsSpace(s[Len(s)]) THEN RStrip(SubSeq(s, 1, Len(s) - 1))
    ELSE s

\* the last index of the maximal run of whitespace starting at i
SpaceRunEnd(s, i) ==
    CHOOSE k \in i..Len(s) :
        /\ \A m \in i..k : IsSpace(s[m])
        /\ k = Len(s) \/ ~IsSpace(s[k + 1])

\* the last index of the maximal run of [\w".] starting at i
TableRefRunEnd(s, i) ==
    CHOOSE k \in i..Len(s) :
        /\ \A m \in i..k : IsTableRefChar(s[m])
        /\ k = Len(s) \/ ~IsTableRefChar(s[k + 1])

----------------------------------------------------------------------------
(* The patterns of _rewrite_fetch_first *)

\* the pattern written r"FETCH (?:FIRST|NEXT) (\d+) ROWS ONLY"
FetchFirstMatchAt_OrNext(s, i) ==
    /\ i + 8 <= Len(s)
    /\ Upper(s[i]) = "FETCH"
    /\ s[i + 1] = SP
    /\ Upper(s[i + 2]) \in {"FIRST", "NEXT"}
    /\ s[i + 3] = SP
    /\ IsDigits(s[i + 4])
    /\ s[i + 5] = SP
    /\ Upper(s[i + 6]) = "ROWS"
    /\ s[i + 7] = SP
    /\ Upper(s[i + 8]) = "ONLY"

\* r"FETCH FIRST (\d+) ROWS ONLY", re.IGNORECASE, matching at lexeme i
\* (nine lexemes; the blanks are single spaces, there is no \b)
FetchFirstMatchAt(s, i) ==
    /\ i + 8 <= Len(s)
    /\ Upper(s[i]) = "FETCH"
    /\ s[i + 1] = SP
    /\ Upper(s[i + 2]) = "FIRST"
    /\ s[i + 3] = SP
    /\ IsDigits(s[i + 4])
    /\ s[i + 5] = SP
    /\ Upper(s[i + 6]) = "ROWS"
    /\ s[i + 7] = SP
    /\ Upper(s[i + 8]) = "ONLY"

\* re.search: the start of the leftmost match, 0 for None
FetchFirstSearch(s) ==
    LET M == {i \in 1..Len(s) : FetchFirstMatchAt(s, i)}
    IN  IF M = {} THEN 0 ELSE Min(M)

\* r"\bORDER\s+BY\b", re.IGNORECASE
OrderByMatchAt(s, i) ==
    /\ Upper(s[i]) = "ORDER"
    /\ BoundaryBefore(s, i)
    /\ i + 2 <= Len(s)
    /\ IsSpace(s[i + 1])
    /\ LET j == SpaceRunEnd(s, i + 1) + 1
       IN  j <= Len(s) /\ Upper(s[j]) = "BY" /\ BoundaryAfter(s, j)

OrderBySearch(s) ==
    LET M == {i \in 1..Len(s) : OrderByMatchAt(s, i)}
    IN  IF M = {} THEN 0 ELSE Min(M)

\* r"\bWHERE\b", re.IGNORECASE
WhereMatchAt(s, i) ==
    Upper(s[i]) = "WHERE" /\ BoundaryBefore(s, i) /\ BoundaryAfter(s, i)

WhereSearch(s) ==
    LET M == {i \in 1..Len(s) : WhereMatchAt(s, i)}
    IN  IF M = {} THEN 0 ELSE Min(M)

\* r"\bFROM\s+([\w\".]+)", re.IGNORECASE
FromMatchAt(s, i) ==
    /\ Upper(s[i]) = "FROM"
    /\ BoundaryBefore(s, i)
    /\ i + 2 <= Len(s)
    /\ IsSpace(s[i + 1])
    /\ LET j == SpaceRunEnd(s, i + 1) + 1
       IN  j <= Len(s) /\ IsTableRefChar(s[j])

FromSearch(s) ==
    LET M == {i \in 1..Len(s) : FromMatchAt(s, i)}
    IN  IF M = {} THEN 0 ELSE Min(M)

\* from_match.end()
FromMatchEnd(s, i) == TableRefRunEnd(s, SpaceRunEnd(s, i + 1) + 1)

----------------------------------------------------------------------------
(* The texts _rewrite_fetch_first builds *)

\* the limit sent as one more bind parameter
RownumLimit_Bound(limit) == <<"ROWNUM", SP, "<=", SP, "%s">>

\* "ROWNUM <= {limit}"
RownumLimit(limit) == <<"ROWNUM", SP, "<=", SP, limit>>

\* sql[: match.start()].rstrip() + sql[match.end() :]
StripFetchFirst(s, i) == RStrip(SubSeq(s, 1, i - 1)) \o SubSeq(s, i + 9, Len(s))

\* f"SELECT * FROM ({sql}) WHERE ROWNUM <= {limit}"
WrapSubquery(s, limit) ==
    <<"SELECT", SP, "*", SP, "FROM", SP, "(">> \o s
        \o <<")", SP, "WHERE", SP>> \o RownumLimit(limit)

\* re.sub without count=1: every WHERE gets the predicate
RECURSIVE InjectAfterEveryWhere(_, _)
InjectAfterEveryWhere(s, limit) ==
    IF s = << >> THEN << >>
    ELSE IF Upper(s[Len(s)]) = "WHERE"
         THEN InjectAfterEveryWhere(SubSeq(s, 1, Len(s) - 1), limit)
                  \o <<"WHERE", SP, "ROWNUM", SP, "<=", SP, limit, SP, "AND">>
         ELSE Append(InjectAfterEveryWhere(SubSeq(s, 1, Len(s) - 1), limit),
                     s[Len(s)])

\* re.sub(r"\bWHERE\b", f"WHERE ROWNUM <= {limit} AND", sql, count=1)
InjectAfterWhere(s, limit) ==
    LET w == WhereSearch(s)
    IN  SubSeq(s, 1, w - 1) \o <<"WHERE", SP>> \o RownumLimit(limit)
            \o <<SP, "AND">> \o SubSeq(s, w + 1, Len(s))

\* sql[:end] + f" WHERE ROWNUM <= {limit}" + sql[end:]
InjectAfterFrom(s, limit) ==
    LET end == FromMatchEnd(s, FromSearch(s))
    IN  SubSeq(s, 1, end) \o <<SP, "WHERE", SP>> \o RownumLimit(limit)
            \o SubSeq(s, end + 1, Len(s))

\* the branches tried in the other order: WHERE before ORDER BY
RewriteMatched_WhereFirst(s, i) ==
    LET limit == s[i + 4]
        sql == RStrip(SubSeq(s, 1, i - 1)) \o SubSeq(s, i + 9, Len(s))
    IN  IF WhereSearch(sql) # 0 THEN InjectAfterWhere(sql, limit)
        ELSE IF OrderBySearch(sql) # 0 THEN WrapSubquery(sql, limit)
        ELSE IF FromSearch(sql) # 0 THEN InjectAfterFrom(sql, limit)
        ELSE sql

\* lines 22-48: the statement after a match at lexeme i
RewriteMatched(s, i) ==
    LET limit == s[i + 4]
        sql == StripFetchFirst(s, i)
    IN  IF OrderBySearch(sql) # 0 THEN WrapSubquery(sql, limit)
        ELSE IF WhereSearch(sql) # 0 THEN InjectAfterWhere(sql, limit)
        ELSE IF FromSearch(sql) # 0 THEN InjectAfterFrom(sql, limit)
        ELSE sql

\* Python values: a str carries its lexemes; anything else its type
PyStr(s) == [type |-> "str", val |-> s]
PyBytes(s) == [type |-> "bytes", val |-> s]
PyNone == [type |-> "NoneType", val |-> << >>]

_rewrite_fetch_first(sql) ==
    IF sql.type # "str" THEN sql
    ELSE LET i == FetchFirstSearch(sql.val)
         IN  IF i = 0 THEN sql
             ELSE PyStr(RewriteMatched(sql.val, i))

----------------------------------------------------------------------------
(* OracleCursorWrapper *)

\* execute(self, sql, params=None)
execute ==
    /\ pc = "called"
    /\ wrapper_call.method = "execute"
    /\ LET sql == _rewrite_fetch_first(wrapper_call.sql)
           params == wrapper_call.params
       IN  cursor_calls' =
              IF params.type = "NoneType"
              THEN Append(cursor_calls, [method |-> "execute", args |-> <<sql>>])
              ELSE Append(cursor_calls,
                          [method |-> "execute", args |-> <<sql, params>>])
    /\ pc' = "returned"
    /\ UNCHANGED <<wrapper_call, table, schema_vars, op_log, rows_vars, app_vars>>

\* executemany handing the statement on as it came
executemany_unrewritten ==
    /\ pc = "called"
    /\ wrapper_call.method = "executemany"
    /\ cursor_calls' =
          Append(cursor_calls,
                 [method |-> "executemany",
                  args |-> <<wrapper_call.sql, wrapper_call.params>>])
    /\ pc' = "returned"
    /\ UNCHANGED <<wrapper_call, table, schema_vars, op_log, rows_vars, app_vars>>

\* executemany(self, sql, param_list)
executemany ==
    /\ pc = "called"
    /\ wrapper_call.method = "executemany"
    /\ LET sql == _rewrite_fetch_first(wrapper_call.sql)
           param_list == wrapper_call.params
       IN  cursor_calls' =
              Append(cursor_calls,
                     [method |-> "executemany", args |-> <<sql, param_list>>])
    /\ pc' = "returned"
    /\ UNCHANGED <<wrapper_call, table, schema_vars, op_log, rows_vars, app_vars>>

----------------------------------------------------------------------------
(* The database behind the driver: what Oracle returns for the statements  *)
(* the wrapper submits.  A row of T is [A, B, X, U]; U is the column the   *)
(* one-column table U adds in a join.  ROWNUM is assigned to a row as it   *)
(* passes the WHERE predicate, before ORDER BY sorts; AND binds tighter    *)
(* than OR.                                                                *)

RowsOfU == <<1, 2>>

Failed == [ok |-> FALSE, rows |-> << >>]
Fetched(rows) == [ok |-> TRUE, rows |-> rows]

\* the value of a number lexeme
Num(x) == CHOOSE n \in 0..MaxLimit : ToString(n) = x

\* col = literal, or ROWNUM <= n
IsAtom(a) ==
    /\ Len(a) = 3
    /\ \/ a[1] \in {"A", "B"} /\ a[2] = "=" /\ IsDigits(a[3])
       \/ a[1] = "ROWNUM" /\ a[2] = "<=" /\ IsDigits(a[3])

AtomHolds(a, row, rownum) ==
    IF a[1] = "ROWNUM" THEN rownum <= Num(a[3]) ELSE row[a[1]] = Num(a[3])

\* atom (AND|OR atom)*
IsPredicate(p) ==
    /\ Len(p) % 4 = 3
    /\ \A k \in 0..(Len(p) \div 4) : IsAtom(SubSeq(p, 4 * k + 1, 4 * k + 3))
    /\ \A k \in 1..(Len(p) \div 4) : p[4 * k] \in {"AND", "OR"}

\* a conjunction: every atom holds
ConjunctionHolds(p, row, rownum) ==
    \A k \in 0..(Len(p) \div 4) :
        AtomHolds(SubSeq(p, 4 * k + 1, 4 * k + 3), row, rownum)

\* the disjunction of the conjunctions that the ORs separate
RECURSIVE PredicateHolds(_, _, _)
PredicateHolds(p, row, rownum) ==
    LET ors == {k \in 1..Len(p) : p[k] = "OR"}
    IN  IF ors = {} THEN ConjunctionHolds(p, row, rownum)
        ELSE LET k == Min(ors)
             IN  \/ ConjunctionHolds(SubSeq(p, 1, k - 1), row, rownum)
                 \/ PredicateHolds(SubSeq(p, k + 1, Len(p)), row, rownum)

\* WHERE: rows are tried in retrieval order; ROWNUM of a candidate is one
\* more than the number of rows accepted so far
RECURSIVE FilterRows(_, _, _)
FilterRows(src, p, out) ==
    IF src = << >> THEN out
    ELSE FilterRows(Tail(src), p,
                    IF PredicateHolds(p, Head(src), Len(out) + 1)
                    THEN Append(out, Head(src)) ELSE out)

\* ORDER BY X: ascending, rows with equal X in their incoming order
RECURSIVE SortByX(_)
SortByX(rows) ==
    IF rows = << >> THEN << >>
    ELSE LET least == Min({rows[i].X : i \in 1..Len(rows)})
             i == Min({k \in 1..Len(rows) : rows[k].X = least})
         IN  <<rows[i]>> \o SortByX(SubSeq(rows, 1, i - 1) \o SubSeq(rows, i + 1, Len(rows)))

\* T CROSS JOIN U
RECURSIVE CrossJoinU(_)
CrossJoinU(rows) ==
    IF rows = << >> THEN << >>
    ELSE [k \in 1..Len(RowsOfU) |-> [Head(rows) EXCEPT !.U = RowsOfU[k]]]
             \o CrossJoinU(Tail(rows))

\* the position of the ")" that closes a "(" opened before position i
RECURSIVE CloseParen(_, _, _)
CloseParen(t, i, depth) ==
    IF i > Len(t) THEN 0
    ELSE IF t[i] = "(" THEN CloseParen(t, i + 1, depth + 1)
    ELSE IF t[i] = ")"
         THEN IF depth = 1 THEN i ELSE CloseParen(t, i + 1, depth - 1)
    ELSE CloseParen(t, i + 1, depth)

\* [WHERE predicate] [ORDER BY X] applied to the rows of the FROM clause;
\* anything else after the FROM clause is a syntax error
WhereOrderBy(rest, rows) ==
    LET hasOrder == Len(rest) >= 3
                      /\ SubSeq(rest, Len(rest) - 2, Len(rest)) = <<"ORDER", "BY", "X">>
        body == IF hasOrder THEN SubSeq(rest, 1, Len(rest) - 3) ELSE rest
        kept == IF body = << >> THEN Fetched(rows)
                ELSE IF body[1] = "WHERE" /\ IsPredicate(Tail(body))
                     THEN Fetched(FilterRows(rows, Tail(body), << >>))
                ELSE Failed
    IN  IF kept.ok /\ hasOrder THEN Fetched(SortByX(kept.rows)) ELSE kept

\* SELECT * FROM (T | T CROSS JOIN U | (query)) [WHERE ...] [ORDER BY X]
RECURSIVE OracleQuery(_)
OracleQuery(t) ==
    IF Len(t) < 4 \/ SubSeq(t, 1, 3) # <<"SELECT", "*", "FROM">> THEN Failed
    ELSE IF t[4] = "("
         THEN LET c == CloseParen(t, 5, 1)
                  inner == IF c = 0 THEN Failed ELSE OracleQuery(SubSeq(t, 5, c - 1))
              IN  IF inner.ok THEN WhereOrderBy(SubSeq(t, c + 1, Len(t)), inner.rows)
                  ELSE Failed
    ELSE IF t[4] = "T"
         THEN IF Len(t) >= 7 /\ SubSeq(t, 5, 7) = <<"CROSS", "JOIN", "U">>
              THEN WhereOrderBy(SubSeq(t, 8, Len(t)), CrossJoinU(table))
              ELSE WhereOrderBy(SubSeq(t, 5, Len(t)), table)
    ELSE Failed

\* cursor.execute(sql) on the driver: the statement's tokens are its
\* lexemes other than whitespace
IsSqlToken(x) == ~IsSpace(x)
DriverResult(sql) == OracleQuery(SelectSeq(sql.val, IsSqlToken))

----------------------------------------------------------------------------
(* Names.  A table, column, sequence or trigger name is a sequence of      *)
(* characters, so that it can be encoded, hashed and folded to upper case. *)

LowerLetters ==
    <<"a", "b", "c", "d", "e", "f", "g", "h", "i", "j", "k", "l", "m",
      "n", "o", "p", "q", "r", "s", "t", "u", "v", "w", "x", "y", "z">>
UpperLetters ==
    <<"A", "B", "C", "D", "E", "F", "G", "H", "I", "J", "K", "L", "M",
      "N", "O", "P", "Q", "R", "S", "T", "U", "V", "W", "X", "Y", "Z">>

IsLower(c) == \E k \in 1..26 : LowerLetters[k] = c
LetterIndex(c) == CHOOSE k \in 1..26 : LowerLetters[k] = c

\* str.encode("utf-8") of lower-case letters, digits, "_" and ":"
CodePoint(c) ==
    IF IsLower(c) THEN 96 + LetterIndex(c)
    ELSE IF c = "_" THEN 95
    ELSE IF c = ":" THEN 58
    ELSE 48 + (CHOOSE d \in 0..9 : ToString(d) = c)

Utf8Encode(s) == [i \in 1..Len(s) |-> CodePoint(s[i])]

\* str.upper()
StrUpper(s) ==
    [i \in 1..Len(s) |-> IF IsLower(s[i]) THEN UpperLetters[LetterIndex(s[i])] ELSE s[i]]

----------------------------------------------------------------------------
(* hashlib.md5 (RFC 1321) *)

\* 32-bit words are pairs <<high 16 bits, low 16 bits>>
Two16 == 65536

RECURSIVE And16(_, _)
And16(x, y) ==
    IF x = 0 \/ y = 0 THEN 0
    ELSE (x % 2) * (y % 2) + 2 * And16(x \div 2, y \div 2)

W32And(x, y) == <<And16(x[1], y[1]), And16(x[2], y[2])>>
W32Or(x, y) == <<x[1] + y[1] - And16(x[1], y[1]), x[2] + y[2] - And16(x[2], y[2])>>
W32Xor(x, y) == <<x[1] + y[1] - 2 * And16(x[1], y[1]), x[2] + y[2] - 2 * And16(x[2], y[2])>>
W32Not(x) == <<Two16 - 1 - x[1], Two16 - 1 - x[2]>>
W32Add(x, y) ==
    LET lo == x[2] + y[2]
    IN  <<(x[1] + y[1] + (lo \div Two16)) % Two16, lo % Two16>>

RECURSIVE Pow2(_)
Pow2(n) == IF n = 0 THEN 1 ELSE 2 * Pow2(n - 1)

W32Rotl(x, s) ==
    LET y == IF s >= 16 THEN <<x[2], x[1]>> ELSE x
        r == s % 16
    IN  <<((y[1] * Pow2(r)) % Two16) + (y[2] \div Pow2(16 - r)),
          ((y[2] * Pow2(r)) % Two16) + (y[1] \div Pow2(16 - r))>>

MD5_K ==
    <<
       <<55146, 42104>>, <<59591, 46934>>, <<9248, 28891>>, <<49597, 52974>>,
       <<62844, 4015>>, <<18311, 50730>>, <<43056, 17939>>, <<64838, 38145>>,
       <<27008, 39128>>, <<35652, 63407>>, <<65535, 23473>>, <<35164, 55230>>,
       <<27536, 4386>>, <<64920, 29075>>, <<42617, 17294>>, <<18868, 2081>>,
       <<63006, 9570>>, <<49216, 45888>>, <<9822, 23121>>, <<59830, 51114>>,
       <<54831, 4189>>, <<580, 5203>>, <<55457, 59009>>, <<59347, 64456>>,
       <<8673, 52710>>, <<49975, 2006>>, <<62677, 3463>>, <<17754, 5357>>,
       <<43491, 59653>>, <<64751, 41976>>, <<26479, 729>>, <<36138, 19594>>,
       <<65530, 14658>>, <<34673, 63105>>, <<28061, 24866>>, <<64997, 14348>>,
       <<42174, 59972>>, <<19422, 53161>>, <<63163, 19296>>, <<48831, 48240>>,
       <<10395, 32454>>, <<60065, 10234>>, <<54511, 12421>>, <<1160, 7429>>,
       <<55764, 53305>>, <<59099, 39397>>, <<8098, 31992>>, <<50348, 22117>>,
       <<62505, 8772>>, <<17194, 65431>>, <<43924, 9127>>, <<64659, 41017>>,
       <<25947, 22979>>, <<36620, 52370>>, <<65519, 62589>>, <<34180, 24017>>,
       <<28584, 32335>>, <<65068, 59104>>, <<41729, 17172>>, <<19976, 4513>>,
       <<63315, 32386>>, <<48442, 62005>>, <<10967, 53947>>, <<60294, 54161>> >>

MD5_S ==
    <<7, 12, 17, 22, 7, 12, 17, 22, 7, 12, 17, 22, 7, 12, 17, 22, 5, 9, 14, 20, 5, 9, 14, 20, 5, 9, 14, 20, 5, 9, 14, 20, 4, 11, 16, 23, 4, 11, 16, 23, 4, 11, 16, 23, 4, 11, 16, 23, 6, 10, 15, 21, 6, 10, 15, 21, 6, 10, 15, 21, 6, 10, 15, 21>>

MD5_Init == <<<<26437, 8961>>, <<61389, 43913>>, <<39098, 56574>>, <<4146, 21622>>>>

\* the message, 0x80, zeros up to 56 mod 64, the bit length in 8 bytes
MD5Pad(msg) ==
    LET n == Len(msg)
        zeros == (55 - n) % 64
        bits == 8 * n
    IN  msg \o <<128>> \o [i \in 1..zeros |-> 0]
            \o <<bits % 256, (bits \div 256) % 256, 0, 0, 0, 0, 0, 0>>

\* word j (from 0) of the 64-byte block that starts after byte off
MD5Word(bytes, off, j) ==
    <<bytes[off + 4 * j + 4] * 256 + bytes[off + 4 * j + 3],
      bytes[off + 4 * j + 2] * 256 + bytes[off + 4 * j + 1]>>

MD5F(i, b, c, d) ==
    IF i < 16 THEN W32Or(W32And(b, c), W32And(W32Not(b), d))
    ELSE IF i < 32 THEN W32Or(W32And(d, b), W32And(W32Not(d), c))
    ELSE IF i < 48 THEN W32Xor(b, W32Xor(c, d))
    ELSE W32Xor(c, W32Or(b, W32Not(d)))

MD5G(i) ==
    IF i < 16 THEN i
    ELSE IF i < 32 THEN (5 * i + 1) % 16
    ELSE IF i < 48 THEN (3 * i + 5) % 16
    ELSE (7 * i) % 16

\* round i on the state st = <<a, b, c, d>>
MD5Round(bytes, off, st, i) ==
    LET f == W32Add(W32Add(MD5F(i, st[2], st[3], st[4]), st[1]),
                    W32Add(MD5_K[i + 1], MD5Word(bytes, off, MD5G(i))))
    IN  <<st[4], W32Add(st[2], W32Rotl(f, MD5_S[i + 1])), st[2], st[3]>>

\* rounds lo..hi-1 in order, computed in two halves
RECURSIVE MD5Rounds(_, _, _, _, _)
MD5Rounds(bytes, off, st, lo, hi) ==
    IF hi = lo + 1 THEN MD5Round(bytes, off, st, lo)
    ELSE LET mid == (lo + hi) \div 2
         IN  CHOOSE r \in {MD5Rounds(bytes, off, half, mid, hi) :
                              half \in {MD5Rounds(bytes, off, st, lo, mid)}} : TRUE

RECURSIVE MD5Blocks(_, _, _)
MD5Blocks(bytes, off, st) ==
    IF off >= Len(bytes) THEN st
    ELSE LET r == MD5Rounds(bytes, off, st, 0, 64)
         IN  MD5Blocks(bytes, off + 64,
                       <<W32Add(st[1], r[1]), W32Add(st[2], r[2]),
                         W32Add(st[3], r[3]), W32Add(st[4], r[4])>>)

\* the 16 bytes of the digest: each word low byte first
MD5Digest(msg) ==
    LET st == MD5Blocks(MD5Pad(msg), 0, MD5_Init)
    IN  [k \in 1..16 |->
            LET w == st[((k - 1) \div 4) + 1]
                b == (k - 1) % 4
            IN  IF b = 0 THEN w[2] % 256
                ELSE IF b = 1 THEN w[2] \div 256
                ELSE IF b = 2 THEN w[1] % 256
                ELSE w[1] \div 256]

\* the digits of hexdigest()
HexDigits == <<"0", "1", "2", "3", "4", "5", "6", "7", "8", "9", "a", "b", "c", "d", "e", "f">>

\* hexdigest(): two lower-case hex digits per byte
RECURSIVE HexDigest(_)
HexDigest(bytes) ==
    IF bytes = << >> THEN << >>
    ELSE <<HexDigits[(Head(bytes) \div 16) + 1], HexDigits[(Head(bytes) % 16) + 1]>>
             \o HexDigest(Tail(bytes))

----------------------------------------------------------------------------
(* DatabaseSchemaEditor *)

\* the names salted with the process, as the built-in hash() of a str is
_sequence_and_trigger_names_salted(table_name, column_name) ==
    LET seed == Utf8Encode(table_name \o <<":">> \o column_name) \o <<process>>
        suffix == StrUpper(SubSeq(HexDigest(MD5Digest(seed)), 1, 10))
    IN  <<<<"S", "Q", "_">> \o suffix, <<"T", "R", "_">> \o suffix>>

\* the names hashed from the table name alone
_sequence_and_trigger_names_of_table(table_name, column_name) ==
    LET seed == Utf8Encode(table_name)
        suffix == StrUpper(SubSeq(HexDigest(MD5Digest(seed)), 1, 10))
    IN  <<<<"S", "Q", "_">> \o suffix, <<"T", "R", "_">> \o suffix>>

\* the suffix left in the lower case of hexdigest()
_sequence_and_trigger_names_lower(table_name, column_name) ==
    LET seed == Utf8Encode(table_name \o <<":">> \o column_name)
        suffix == SubSeq(HexDigest(MD5Digest(seed)), 1, 10)
    IN  <<<<"S", "Q", "_">> \o suffix, <<"T", "R", "_">> \o suffix>>

_sequence_and_trigger_names(table_name, column_name) ==
    LET seed == Utf8Encode(table_name \o <<":">> \o column_name)
        suffix == StrUpper(SubSeq(HexDigest(MD5Digest(seed)), 1, 10))
        sequence_name == <<"S", "Q", "_">> \o suffix
        trigger_name == <<"T", "R", "_">> \o suffix
    IN  <<sequence_name, trigger_name>>

\* self.quote_name(name): the name as the data dictionary stores it, in
\* upper case (names here are shorter than the 30 characters it truncates to)
quote_name(name) == StrUpper(name)

\* the name an unquoted identifier denotes
UnquotedName(name) == StrUpper(name)

\* f with x mapped to v, x added to its domain if need be
Put(f, x, v) == [y \in DOMAIN f \cup {x} |-> IF y = x THEN v ELSE f[y]]
\* f without x
Remove(f, x) == [y \in DOMAIN f \ {x} |-> f[y]]

core_course == <<"c", "o", "r", "e", "_", "c", "o", "u", "r", "s", "e">>
core_quizresult ==
    <<"c", "o", "r", "e", "_", "q", "u", "i", "z", "r", "e", "s", "u", "l", "t">>
id == <<"i", "d">>
rank == <<"r", "a", "n", "k">>

\* the (table, column) pairs the editor is called for
AutoColumns == {<<core_course, id>>, <<core_quizresult, id>>, <<core_course, rank>>}

\* self._sequence_and_trigger_names(table_name, column_name) for each of
\* AutoColumns; start_process works it out and the editor's calls in that
\* process read names_of
NamesInProcess == [p \in AutoColumns |-> _sequence_and_trigger_names(p[1], p[2])]

\* the call returned names for (table_name, column_name): names_seen keeps
\* the process of the first such call and every value returned since
NoteNames(table_name, column_name, names) ==
    LET p == <<table_name, column_name>>
    IN  names_seen' =
            IF p \in DOMAIN names_seen
            THEN Put(names_seen, p, [first |-> names_seen[p].first,
                                     names |-> names_seen[p].names \cup {names}])
            ELSE Put(names_seen, p, [first |-> process, names |-> {names}])

\* the block without the lookup in USER_SEQUENCES: CREATE SEQUENCE always
CreateSequenceBlock_NoLookup(seqs, sequence_name) ==
    LET quoted_sequence == quote_name(sequence_name)
    IN  IF quoted_sequence \in DOMAIN seqs
        THEN [error |-> "ORA-00955", sequences |-> seqs,
              ddl |-> <<<<"CREATE SEQUENCE", quoted_sequence>>>>]
        ELSE [error |-> "none", sequences |-> Put(seqs, quoted_sequence, 1),
              ddl |-> <<<<"CREATE SEQUENCE", quoted_sequence>>>>]

\* lines 42-53: the block that creates the sequence unless USER_SEQUENCES
\* lists sequence_name; ORA-00955 when the name is taken all the same
CreateSequenceBlock(seqs, sequence_name) ==
    LET seq_count == IF sequence_name \in DOMAIN seqs THEN 1 ELSE 0
        quoted_sequence == quote_name(sequence_name)
    IN  IF seq_count # 0 THEN [error |-> "none", sequences |-> seqs, ddl |-> << >>]
        ELSE IF quoted_sequence \in DOMAIN seqs
             THEN [error |-> "ORA-00955", sequences |-> seqs,
                   ddl |-> <<<<"CREATE SEQUENCE", quoted_sequence>>>>]
        ELSE [error |-> "none", sequences |-> Put(seqs, quoted_sequence, 1),
              ddl |-> <<<<"CREATE SEQUENCE", quoted_sequence>>>>]

\* SQL NULL; the values of the columns are positive
Null == 0

\* when_null of a trigger that has no WHEN clause
NoWhen == << >>

\* the trigger made without its WHEN clause
CreateTriggerStatement_NoWhen(trigs, table_name, column_name, sequence_name, trigger_name) ==
    LET quoted_trigger == quote_name(trigger_name)
        quoted_table == quote_name(table_name)
        definition == [table |-> quoted_table,
                       when_null |-> NoWhen,
                       assigns |-> quote_name(column_name),
                       sequence |-> quote_name(sequence_name)]
    IN  IF quoted_table \notin db_tables
        THEN [error |-> "ORA-00942", triggers |-> trigs]
        ELSE IF quoted_trigger \in DOMAIN trigs /\ trigs[quoted_trigger].table # quoted_table
             THEN [error |-> "ORA-04095", triggers |-> trigs]
        ELSE [error |-> "none", triggers |-> Put(trigs, quoted_trigger, definition)]

\* lines 55-65: CREATE OR REPLACE TRIGGER; ORA-00942 without the table,
\* ORA-04095 when the name is a trigger of another table
CreateTriggerOn(tables, trigs, table_name, column_name, sequence_name, trigger_name) ==
    LET quoted_trigger == quote_name(trigger_name)
        quoted_table == quote_name(table_name)
        definition == [table |-> quoted_table,
                       when_null |-> UnquotedName(column_name),
                       assigns |-> quote_name(column_name),
                       sequence |-> quote_name(sequence_name)]
    IN  IF quoted_table \notin tables
        THEN [error |-> "ORA-00942", triggers |-> trigs]
        ELSE IF quoted_trigger \in DOMAIN trigs /\ trigs[quoted_trigger].table # quoted_table
             THEN [error |-> "ORA-04095", triggers |-> trigs]
        ELSE [error |-> "none", triggers |-> Put(trigs, quoted_trigger, definition)]

\* the statement run in the database as it is, with the tables db_tables
CreateTriggerStatement(trigs, table_name, column_name, sequence_name, trigger_name) ==
    CreateTriggerOn(db_tables, trigs, table_name, column_name, sequence_name, trigger_name)

_create_legacy_autoincrement(table_name, column_name) ==
    LET names == names_of[<<table_name, column_name>>]
        first == CreateSequenceBlock(sequences, names[1])
        second == CreateTriggerStatement(triggers, table_name, column_name,
                                         names[1], names[2])
    IN  /\ names_of # << >>
        /\ NoteNames(table_name, column_name, names)
        /\ before' = [sequences |-> sequences, triggers |-> triggers]
        /\ sequences' = first.sequences
        /\ IF first.error # "none"
           THEN /\ triggers' = triggers
                /\ last_op' = [op |-> "create", process |-> process, table |-> table_name,
                               column |-> column_name, error |-> first.error,
                               raised |-> <<first.error>>, ddl |-> first.ddl]
           ELSE /\ triggers' = second.triggers
                /\ last_op' = [op |-> "create", process |-> process, table |-> table_name,
                               column |-> column_name, error |-> second.error,
                               raised |-> <<first.error, second.error>>,
                               ddl |-> Append(first.ddl,
                                              <<"CREATE OR REPLACE TRIGGER",
                                                quote_name(names[2])>>)]
        /\ UNCHANGED <<db_tables, process, names_of, cursor_vars, rows_vars, app_vars>>

\* errors a DROP can raise besides "does not exist"
OtherErrors == {"ORA-00054"}

\* the trigger drop with a handler that swallows every error
DropTriggerBlock_SuppressAll(trigs, trigger_name, fault) ==
    LET quoted_trigger == quote_name(trigger_name)
        raised == IF fault # "none" THEN fault
                  ELSE IF quoted_trigger \notin DOMAIN trigs THEN "ORA-04080"
                  ELSE "none"
    IN  [raised |-> raised, error |-> "none",
         triggers |-> IF raised = "none" THEN Remove(trigs, quoted_trigger) ELSE trigs]

\* lines 72-83: DROP TRIGGER raises ORA-04080 when there is no such trigger;
\* the handler re-raises unless SQLCODE is -4080
DropTriggerBlock(trigs, trigger_name, fault) ==
    LET quoted_trigger == quote_name(trigger_name)
        raised == IF fault # "none" THEN fault
                  ELSE IF quoted_trigger \notin DOMAIN trigs THEN "ORA-04080"
                  ELSE "none"
    IN  [raised |-> raised,
         error |-> IF raised # "ORA-04080" THEN raised ELSE "none",
         triggers |-> IF raised = "none" THEN Remove(trigs, quoted_trigger) ELSE trigs]

\* lines 85-96: DROP SEQUENCE raises ORA-02289 when there is no such
\* sequence; the handler re-raises unless SQLCODE is -2289
DropSequenceBlock(seqs, sequence_name, fault) ==
    LET quoted_sequence == quote_name(sequence_name)
        raised == IF fault # "none" THEN fault
                  ELSE IF quoted_sequence \notin DOMAIN seqs THEN "ORA-02289"
                  ELSE "none"
    IN  [raised |-> raised,
         error |-> IF raised # "ORA-02289" THEN raised ELSE "none",
         sequences |-> IF raised = "none" THEN Remove(seqs, quoted_sequence) ELSE seqs]

\* fault1, fault2: what the database raises on the first and on the second
\* statement, "none" or one of OtherErrors
_drop_legacy_autoincrement(table_name, column_name, fault1, fault2) ==
    LET names == names_of[<<table_name, column_name>>]
        first == DropTriggerBlock(triggers, names[2], fault1)
        second == DropSequenceBlock(sequences, names[1], fault2)
    IN  /\ names_of # << >>
        /\ NoteNames(table_name, column_name, names)
        /\ before' = [sequences |-> sequences, triggers |-> triggers]
        /\ triggers' = first.triggers
        /\ IF first.error # "none"
           THEN /\ sequences' = sequences
                /\ last_op' = [op |-> "drop", process |-> process, table |-> table_name,
                               column |-> column_name, error |-> first.error,
                               raised |-> <<first.raised>>,
                               ddl |-> <<<<"DROP TRIGGER", quote_name(names[2])>>>>]
           ELSE /\ sequences' = second.sequences
                /\ last_op' = [op |-> "drop", process |-> process, table |-> table_name,
                               column |-> column_name, error |-> second.error,
                               raised |-> <<first.raised, second.raised>>,
                               ddl |-> <<<<"DROP TRIGGER", quote_name(names[2])>>,
                                         <<"DROP SEQUENCE", quote_name(names[1])>>>>]
        /\ UNCHANGED <<db_tables, process, names_of, cursor_vars, rows_vars, app_vars>>

\* the columns of table_name that the model keeps
Columns(table_name) == {p[2] : p \in {q \in AutoColumns : q[1] = table_name}}

\* no INSERT has run
NoInsert == [table |-> << >>, new |-> << >>, row |-> << >>, assigned |-> {},
             error |-> "none", high_before |-> 0]

\* INSERT INTO table_name of a row with the values new (Null for a column
\* left out).  The triggers of lines 57-63 on the table run before the row
\* is stored: one whose column is null takes the next value of its sequence
\* (ORA-04098 if it has no sequence; a value taken is not given back when
\* the INSERT fails).  Then the primary key id is checked: ORA-01400 if it
\* is null, ORA-00001 if a row of the table has it.
insert(table_name, new) ==
    LET T == quote_name(table_name)
        fired == {n \in DOMAIN triggers :
                     /\ triggers[n].table = T
                     /\ \/ triggers[n].when_null = NoWhen
                        \/ \E c \in DOMAIN new :
                              /\ triggers[n].when_null = UnquotedName(c)
                              /\ new[c] = Null}
        valid == \A n \in fired : triggers[n].sequence \in DOMAIN sequences
        assigned == {c \in DOMAIN new :
                        \E n \in fired : triggers[n].assigns = quote_name(c)}
        NextVal(c) == sequences[triggers[CHOOSE n \in fired :
                                   triggers[n].assigns = quote_name(c)].sequence]
        row == [c \in DOMAIN new |-> IF c \in assigned THEN NextVal(c) ELSE new[c]]
        error == IF ~valid THEN "ORA-04098"
                 ELSE IF row[id] = Null THEN "ORA-01400"
                 ELSE IF \E k \in 1..Len(table_rows[T]) : table_rows[T][k][id] = row[id]
                      THEN "ORA-00001"
                 ELSE "none"
    IN  /\ T \in db_tables
        /\ Len(table_rows[T]) < MaxInserts
        /\ valid => \A n \in fired : sequences[triggers[n].sequence] <= MaxNextVal
        /\ sequences' = IF ~valid THEN sequences
                        ELSE [s \in DOMAIN sequences |->
                                 IF \E n \in fired : triggers[n].sequence = s
                                 THEN sequences[s] + 1 ELSE sequences[s]]
        /\ table_rows' = IF error # "none" THEN table_rows
                         ELSE [table_rows EXCEPT ![T] = Append(@, row)]
        /\ last_insert' = [table |-> table_name, new |-> new,
                           row |-> IF valid THEN row ELSE new,
                           assigned |-> IF valid THEN assigned ELSE {},
                           error |-> error, high_before |-> high_key[T]]
        /\ high_key' = IF valid /\ id \in assigned /\ row[id] > high_key[T]
                       THEN [high_key EXCEPT ![T] = row[id]]
                       ELSE high_key
        /\ last_op' = [op |-> "insert", process |-> process, table |-> table_name,
                       column |-> << >>, error |-> error,
                       raised |-> << >>, ddl |-> << >>]
        /\ before' = [sequences |-> sequences, triggers |-> triggers]
        /\ UNCHANGED <<db_tables, triggers, process, names_seen, names_of,
                       cursor_vars, op_log, app_vars>>

----------------------------------------------------------------------------
(* create_model and delete_model: lines 22-33 *)

title == <<"t", "i", "t", "l", "e">>
score == <<"s", "c", "o", "r", "e">>

\* a model: _meta.db_table and _meta.local_fields in their order
Field(column, type) == [column |-> column, type |-> type]
Models ==
    {[db_table |-> core_course,
      local_fields |-> <<Field(id, "BigAutoField"), Field(title, "CharField")>>],
     [db_table |-> core_quizresult,
      local_fields |-> <<Field(id, "BigAutoField"), Field(score, "IntegerField")>>]}

\* lines 26, 31: isinstance(field, (AutoField, BigAutoField, SmallAutoField))
IsAutoField(field) == field.type \in {"AutoField", "BigAutoField", "SmallAutoField"}

\* names_seen after _sequence_and_trigger_names returned names for the pair
Noted(seen, table_name, column_name, names) ==
    LET p == <<table_name, column_name>>
    IN  IF p \in DOMAIN seen
        THEN Put(seen, p, [first |-> seen[p].first, names |-> seen[p].names \cup {names}])
        ELSE Put(seen, p, [first |-> process, names |-> {names}])

\* lines 25-27: the loop of create_model over fields, from the state s of
\* the data dictionary; the first error ends it
RECURSIVE CreateAutoIncrements(_, _, _, _)
CreateAutoIncrements(tables, s, table_name, fields) ==
    IF fields = << >> \/ s.error # "none" THEN s
    ELSE IF ~IsAutoField(Head(fields))
    THEN CreateAutoIncrements(tables, s, table_name, Tail(fields))
    ELSE LET column_name == Head(fields).column
             names == names_of[<<table_name, column_name>>]
             first == CreateSequenceBlock(s.sequences, names[1])
             second == CreateTriggerOn(tables, s.triggers, table_name, column_name,
                                       names[1], names[2])
             seen == Noted(s.seen, table_name, column_name, names)
             next == IF first.error # "none"
                     THEN [sequences |-> first.sequences, triggers |-> s.triggers,
                           seen |-> seen, error |-> first.error,
                           raised |-> Append(s.raised, first.error),
                           ddl |-> s.ddl \o first.ddl]
                     ELSE [sequences |-> first.sequences, triggers |-> second.triggers,
                           seen |-> seen, error |-> second.error,
                           raised |-> s.raised \o <<first.error, second.error>>,
                           ddl |-> s.ddl \o first.ddl
                                   \o <<<<"CREATE OR REPLACE TRIGGER", quote_name(names[2])>>>>]
         IN  CreateAutoIncrements(tables, next, table_name, Tail(fields))

\* lines 22-27: super().create_model(model) runs CREATE TABLE, ORA-00955
\* when the table exists; then the loop over the fields
create_model(model) ==
    LET T == quote_name(model.db_table)
        exists == T \in db_tables
        start == [sequences |-> sequences, triggers |-> triggers, seen |-> names_seen,
                  error |-> "none", raised |-> <<"none">>, ddl |-> <<<<"CREATE TABLE", T>>>>]
        done == IF exists
                THEN [start EXCEPT !.error = "ORA-00955", !.raised = <<"ORA-00955">>]
                ELSE CreateAutoIncrements(db_tables \cup {T}, start, model.db_table,
                                          model.local_fields)
    IN  /\ names_of # << >>
        /\ before' = [sequences |-> sequences, triggers |-> triggers]
        /\ last_op' = [op |-> "create_model", process |-> process, table |-> model.db_table,
                       column |-> << >>, error |-> done.error,
                       raised |-> done.raised, ddl |-> done.ddl]
        /\ db_tables' = db_tables \cup {T}
        /\ sequences' = done.sequences
        /\ triggers' = done.triggers
        /\ names_seen' = done.seen
        /\ table_rows' = IF exists THEN table_rows ELSE Put(table_rows, T, << >>)
        /\ high_key' = IF exists THEN high_key ELSE Put(high_key, T, 0)
        /\ UNCHANGED <<process, names_of, last_insert, cursor_vars, op_log, app_vars>>

\* lines 30-32: the loop of delete_model over fields; fault1 and fault2 are
\* what the database raises on the statements of a drop
RECURSIVE DropAutoIncrements(_, _, _, _, _)
DropAutoIncrements(s, table_name, fields, fault1, fault2) ==
    IF fields = << >> \/ s.error # "none" THEN s
    ELSE IF ~IsAutoField(Head(fields))
    THEN DropAutoIncrements(s, table_name, Tail(fields), fault1, fault2)
    ELSE LET column_name == Head(fields).column
             names == names_of[<<table_name, column_name>>]
             first == DropTriggerBlock(s.triggers, names[2], fault1)
             second == DropSequenceBlock(s.sequences, names[1], fault2)
             seen == Noted(s.seen, table_name, column_name, names)
             next == IF first.error # "none"
                     THEN [sequences |-> s.sequences, triggers |-> first.triggers,
                           seen |-> seen, error |-> first.error,
                           raised |-> Append(s.raised, first.raised),
                           ddl |-> Append(s.ddl, <<"DROP TRIGGER", quote_name(names[2])>>)]
                     ELSE [sequences |-> second.sequences, triggers |-> first.triggers,
                           seen |-> seen, error |-> second.error,
                           raised |-> s.raised \o <<first.raised, second.raised>>,
                           ddl |-> s.ddl \o <<<<"DROP TRIGGER", quote_name(names[2])>>,
                                              <<"DROP SEQUENCE", quote_name(names[1])>>>>]
         IN  DropAutoIncrements(next, table_name, Tail(fields), fault1, fault2)

\* the triggers that are left when table T is dropped: DROP TABLE drops the
\* triggers of the table
WithoutTriggersOf(trigs, T) ==
    [n \in {m \in DOMAIN trigs : trigs[m].table # T} |-> trigs[n]]

\* the table dropped before the loop runs
delete_model_table_first(model, fault1, fault2) ==
    LET T == quote_name(model.db_table)
        exists == T \in db_tables
        start == [sequences |-> sequences,
                  triggers |-> WithoutTriggersOf(triggers, T), seen |-> names_seen,
                  error |-> "none", raised |-> <<"none">>, ddl |-> <<<<"DROP TABLE", T>>>>]
        done == IF ~exists
                THEN [start EXCEPT !.error = "ORA-00942", !.raised = <<"ORA-00942">>,
                                   !.triggers = triggers]
                ELSE DropAutoIncrements(start, model.db_table, model.local_fields,
                                        fault1, fault2)
    IN  /\ names_of # << >>
        /\ before' = [sequences |-> sequences, triggers |-> triggers]
        /\ last_op' = [op |-> "delete_model", process |-> process, table |-> model.db_table,
                       column |-> << >>, error |-> done.error,
                       raised |-> done.raised, ddl |-> done.ddl]
        /\ db_tables' = db_tables \ {T}
        /\ sequences' = done.sequences
        /\ triggers' = done.triggers
        /\ names_seen' = done.seen
        /\ table_rows' = IF exists THEN Remove(table_rows, T) ELSE table_rows
        /\ high_key' = IF exists THEN Remove(high_key, T) ELSE high_key
        /\ UNCHANGED <<process, names_of, last_insert, cursor_vars, op_log, app_vars>>

\* lines 29-33: the loop over the fields, then super().delete_model(model)
\* runs DROP TABLE, ORA-00942 when there is no such table
delete_model(model, fault1, fault2) ==
    LET T == quote_name(model.db_table)
        start == [sequences |-> sequences, triggers |-> triggers, seen |-> names_seen,
                  error |-> "none", raised |-> << >>, ddl |-> << >>]
        done == DropAutoIncrements(start, model.db_table, model.local_fields,
                                   fault1, fault2)
        dropped == done.error = "none" /\ T \in db_tables
        error == IF done.error # "none" THEN done.error
                 ELSE IF T \notin db_tables THEN "ORA-00942" ELSE "none"
    IN  /\ names_of # << >>
        /\ before' = [sequences |-> sequences, triggers |-> triggers]
        /\ last_op' = [op |-> "delete_model", process |-> process, table |-> model.db_table,
                       column |-> << >>, error |-> error,
                       raised |-> IF done.error # "none" THEN done.raised
                                  ELSE Append(done.raised, error),
                       ddl |-> IF done.error # "none" THEN done.ddl
                               ELSE Append(done.ddl, <<"DROP TABLE", T>>)]
        /\ db_tables' = IF dropped THEN db_tables \ {T} ELSE db_tables
        /\ sequences' = done.sequences
        /\ triggers' = IF dropped THEN WithoutTriggersOf(done.triggers, T) ELSE done.triggers
        /\ names_seen' = done.seen
        /\ table_rows' = IF dropped THEN Remove(table_rows, T) ELSE table_rows
        /\ high_key' = IF dropped THEN Remove(high_key, T) ELSE high_key
        /\ UNCHANGED <<process, names_of, last_insert, cursor_vars, op_log, app_vars>>

\* a Python process starts to run migrations
start_process ==
    /\ names_of = << >>
    /\ names_of' = NamesInProcess
    /\ UNCHANGED <<db_tables, sequences, triggers, process, last_op, before,
                   names_seen, cursor_vars, op_log, rows_vars, app_vars>>

\* the process ends; the migrations will run again in a new one
exit_process ==
    /\ names_of # << >>
    /\ process < MaxProcesses
    /\ process' = process + 1
    /\ names_of' = << >>
    /\ UNCHANGED <<db_tables, sequences, triggers, last_op, before, names_seen,
                   cursor_vars, op_log, rows_vars, app_vars>>

----------------------------------------------------------------------------
(* core/gemini.py.  The text of an exception is a sequence of characters;  *)
(* time is counted in tenths of a second, so that float("7.5") is 75.      *)

\* _generate_with_retry is called with max_retries of 0..MaxRetries
MaxRetries == 3
\* a JSON answer lists 0..MaxItems items
MaxItems == 2
\* count is 1..MaxCount
MaxCount == 2

\* line 35: max_retries: int = 3
DefaultMaxRetries == 3
\* line 38: delay = 10, in tenths of a second
InitialDelay == 100
\* line 54: min(delay * 2, 60), in tenths of a second
DelayCap == 600

\* line 47: the marks of a rate-limit error
Mark429 == <<"4", "2", "9">>
MarkExhausted == <<"R", "E", "S", "O", "U", "R", "C", "E", "_",
                   "E", "X", "H", "A", "U", "S", "T", "E", "D">>

\* x in s, for two str
Contains(s, x) ==
    \E i \in 1..(Len(s) - Len(x) + 1) : SubSeq(s, i, i + Len(x) - 1) = x

\* line 49: [\d.]
IsDigitOrDot(c) == c \in {"0", "1", "2", "3", "4", "5", "6", "7", "8", "9", "."}

\* the end of the longest run of [\d.] that starts at i; i - 1 if there is none
DigitRunEnd(s, i) ==
    IF i <= Len(s) /\ IsDigitOrDot(s[i])
    THEN CHOOSE e \in i..Len(s) :
            /\ \A k \in i..e : IsDigitOrDot(s[k])
            /\ e = Len(s) \/ ~IsDigitOrDot(s[e + 1])
    ELSE i - 1

\* line 49: r"retry in ([\d.]+)s" with re.IGNORECASE matches at i.  The run
\* is taken whole: a shorter one is followed by a character of the run,
\* never by s.
RetryInMatchAt(s, i) ==
    /\ i + 9 <= Len(s)
    /\ StrUpper(SubSeq(s, i, i + 8)) = <<"R", "E", "T", "R", "Y", " ", "I", "N", " ">>
    /\ DigitRunEnd(s, i + 9) >= i + 9
    /\ DigitRunEnd(s, i + 9) < Len(s)
    /\ s[DigitRunEnd(s, i + 9) + 1] \in {"s", "S"}

\* line 49: re.search: match.group(1) of the leftmost match, PyNone without one
RetryInSearch(s) ==
    IF \E i \in 1..Len(s) : RetryInMatchAt(s, i)
    THEN LET i == Min({j \in 1..Len(s) : RetryInMatchAt(s, j)})
         IN  [type |-> "str", val |-> SubSeq(s, i + 9, DigitRunEnd(s, i + 9))]
    ELSE PyNone

\* the value of a run of digits
RECURSIVE DigitsValue(_)
DigitsValue(s) ==
    IF s = << >> THEN 0
    ELSE 10 * DigitsValue(SubSeq(s, 1, Len(s) - 1))
         + (CHOOSE d \in 0..9 : ToString(d) = s[Len(s)])

\* line 50: float(x) for x of [\d.]+, in tenths (digits after the first
\* decimal are dropped); ValueError for a text float rejects: more than one
\* point, or no digit
float(x) ==
    LET points == {i \in 1..Len(x) : x[i] = "."}
    IN  IF Cardinality(points) > 1 \/ Cardinality(points) = Len(x)
        THEN [error |-> "ValueError"]
        ELSE IF points = {} THEN [value |-> 10 * DigitsValue(x)]
        ELSE LET p == CHOOSE i \in points : TRUE
             IN  [value |-> 10 * DigitsValue(SubSeq(x, 1, p - 1))
                            + (IF p < Len(x) THEN DigitsValue(<<x[p + 1]>>) ELSE 0)]

\* an exception: its class and str(exc)
Exc(class, text) == [class |-> class, text |-> text]

\* no exception, no value
NoError == Exc("none", << >>)
NoResult == [kind |-> "none", value |-> << >>]
Return(v) == [kind |-> "returned", value |-> v]
Raise(e) == [kind |-> "raised", value |-> e]

\* lines 26-32: _get_client: the client, or "RuntimeError" without a key
_get_client ==
    IF _client = "None" /\ _API_KEY = "" THEN "RuntimeError" ELSE "Client"

\* lines 45-56: the except clause for the error exc of attempt number attempt:
\* the exception that leaves the function, or the wait before the next attempt
HandleError(exc, max_retries) ==
    LET err_str == exc.text
        match == RetryInSearch(err_str)
        wait == IF match # PyNone THEN float(match.val) ELSE [value |-> delay]
    IN  IF Contains(err_str, Mark429) \/ Contains(err_str, MarkExhausted)
        THEN IF "error" \in DOMAIN wait THEN [raise |-> Exc(wait.error, match.val)]
             ELSE IF attempt < max_retries THEN [sleep |-> wait.value]
             ELSE [raise |-> exc]
        ELSE [raise |-> exc]

\* the smaller of two numbers
min(a, b) == IF a <= b THEN a ELSE b

\* a Python int
PyInt(n) == [type |-> "int", val |-> n]

\* lines 102, 127, 180: ", ".join(interests): TypeError when an entry is
\* not a str
join(interests) ==
    IF \E i \in 1..Len(interests) : interests[i].type # "str"
    THEN [error |-> "TypeError"]
    ELSE [value |-> [i \in 1..(2 * Len(interests) - 1) |->
                        IF i % 2 = 1 THEN interests[(i + 1) \div 2].val ELSE ", "]]

\* lines 102-107, 127-132, 152-156, 176-187: the text the function builds
\* before its try statement, or the error it raises there; topic is the
\* topic of a quiz, the message of a chat, the prompt of _generate_with_retry
PromptOf(call) ==
    IF call.fn \in {"generate_courses", "generate_certifications", "chat_response"}
       /\ call.interests # << >>
    THEN join(call.interests)
    ELSE [value |-> <<call.topic>>]

\* the pydantic model the answer of a function is validated with, by the
\* key of its list
SchemaKey(fn) ==
    CASE fn = "generate_courses" -> "courses"
      [] fn = "generate_certifications" -> "certifications"
      [] fn = "generate_quiz" -> "questions"

\* model_validate_json(response.text): the text is a JSON object of the
\* model's keys
Validates(fn, text) ==
    /\ text.kind = "json"
    /\ SchemaKey(fn) \in DOMAIN text.doc
    /\ fn = "generate_quiz" => "topic" \in DOMAIN text.doc

\* str.strip() of a text of lexemes
RECURSIVE LStrip(_)
LStrip(s) == IF s # << >> /\ IsSpace(s[1]) THEN LStrip(Tail(s)) ELSE s
strip(s) == LStrip(RStrip(s))

\* line 195
Apology == <<"I'm having trouble connecting right now. Please try again in a moment.">>

\* lines 120, 145, 169, 195: what the function returns after its except clause
Fallback(call) ==
    CASE call.fn \in {"generate_courses", "generate_certifications"} -> << >>
      [] call.fn = "generate_quiz" -> [topic |-> call.topic, questions |-> << >>]
      [] call.fn = "chat_response" -> Apology

\* lines 116-117, 141-142, 165-166, 190-192: the body of the try statement
\* after _generate_with_retry has returned response
FromResponse(call, response) ==
    CASE call.fn \in {"generate_courses", "generate_certifications"} ->
            IF Validates(call.fn, response.text)
            THEN SubSeq(response.text.doc[SchemaKey(call.fn)], 1,
                        min(call.count, Len(response.text.doc[SchemaKey(call.fn)])))
            ELSE Fallback(call)
      [] call.fn = "generate_quiz" ->
            IF Validates(call.fn, response.text)
            THEN [topic |-> response.text.doc["topic"],
                  questions |-> response.text.doc["questions"]]
            ELSE Fallback(call)
      [] call.fn = "chat_response" ->
            IF response.text.kind = "plain" /\ strip(response.text.val) # << >>
            THEN strip(response.text.val)
            ELSE Fallback(call)

\* what the function called makes of the outcome r of _generate_with_retry
Complete(call, r) ==
    IF call.fn = "_generate_with_retry" THEN r
    ELSE IF r.kind = "raised" THEN Return(Fallback(call))
    ELSE Return(FromResponse(call, r.value))

\* one of the four public functions, or _generate_with_retry itself, is
\* called: the prompt is built, then _get_client is called (line 37)
call_gemini(call) ==
    /\ gemini_pc \in {"idle", "done"}
    /\ gemini_call' = call
    /\ attempt' = 0
    /\ delay' = InitialDelay
    /\ calls' = 0
    /\ waits' = << >>
    /\ last_error' = NoError
    /\ IF "error" \in DOMAIN PromptOf(call)
       THEN /\ result' = Raise(Exc(PromptOf(call).error, << >>))
            /\ retry_outcome' = NoResult
            /\ gemini_pc' = "done"
            /\ UNCHANGED _client
       ELSE IF _get_client = "RuntimeError"
       THEN /\ retry_outcome' = Raise(Exc("RuntimeError", << >>))
            /\ result' = Complete(call, retry_outcome')
            /\ gemini_pc' = "done"
            /\ UNCHANGED _client
       ELSE /\ result' = NoResult
            /\ retry_outcome' = NoResult
            /\ gemini_pc' = "attempt"
            /\ _client' = "Client"
    /\ UNCHANGED <<_API_KEY, oracle_vars, views_vars, progress_vars, flask_vars>>

\* lines 39-56: one turn of the loop: generate_content answers with outcome,
\* a response or an exception
generate_content(outcome) ==
    /\ gemini_pc = "attempt"
    /\ calls' = calls + 1
    /\ IF outcome.kind = "response"
       THEN /\ retry_outcome' = Return(outcome)
            /\ result' = Complete(gemini_call, retry_outcome')
            /\ gemini_pc' = "done"
            /\ UNCHANGED <<attempt, delay, waits, last_error>>
       ELSE LET handled == HandleError(outcome.exc, gemini_call.max_retries)
            IN  /\ last_error' = outcome.exc
                /\ IF "sleep" \in DOMAIN handled
                   THEN /\ waits' = Append(waits, handled.sleep)
                        /\ delay' = min(delay * 2, DelayCap)
                        /\ attempt' = attempt + 1
                        /\ UNCHANGED <<result, retry_outcome, gemini_pc>>
                   ELSE /\ retry_outcome' = Raise(handled.raise)
                        /\ result' = Complete(gemini_call, retry_outcome')
                        /\ gemini_pc' = "done"
                        /\ UNCHANGED <<attempt, delay, waits>>
    /\ UNCHANGED <<_API_KEY, _client, gemini_call, oracle_vars, views_vars, progress_vars, flask_vars>>

\* the arguments of the functions: interests is empty, a list of str, or a
\* list with an entry that is not a str
Interests == {<< >>, <<PyStr("ai")>>, <<PyStr("ai"), PyInt(7)>>}
GeminiCalls ==
    [fn : {"generate_courses", "generate_certifications"}, interests : Interests,
     topic : {"general"}, count : 1..MaxCount, max_retries : {DefaultMaxRetries}]
    \cup [fn : {"generate_quiz"}, interests : {<< >>}, topic : {"python"},
          count : 1..MaxCount, max_retries : {DefaultMaxRetries}]
    \cup [fn : {"chat_response"}, interests : Interests, topic : {"hello"},
          count : {1}, max_retries : {DefaultMaxRetries}]
    \cup [fn : {"_generate_with_retry"}, interests : {<< >>}, topic : {"prompt"},
          count : {1}, max_retries : 0..MaxRetries]

\* what the service may answer.  The text of an error starts with its code
\* and may go on with a delay; the delays are 7.5 s, 90 s and a text that
\* is no number
ErrorCodes == {Mark429, MarkExhausted, <<"5", "0", "0">>}
RetryDelays == {<<"7", ".", "5">>, <<"9", "0">>, <<"1", ".", "2", ".", "3">>}
ErrorTexts ==
    ErrorCodes
    \cup {code \o <<" ", "R", "e", "t", "r", "y", " ", "i", "n", " ">> \o d \o <<"s">> :
             code \in ErrorCodes, d \in RetryDelays}
ItemLists == {[i \in 1..n |-> i] : n \in 0..MaxItems}
JsonTexts ==
    {[kind |-> "json", doc |-> d] :
        d \in [courses : ItemLists] \cup [certifications : ItemLists]
              \cup [topic : {"python"}, questions : ItemLists]}
PlainTexts == {[kind |-> "plain", val |-> v] : v \in {<< >>, <<SP>>, <<SP, "Hi", SP>>}}
NoText == [kind |-> "none"]
\* a call with a response_json_schema is answered in JSON, or with a text
\* that is no JSON; one without it in plain text
ResponseTexts(call) ==
    CASE call.fn = "chat_response" -> PlainTexts \cup {NoText}
      [] call.fn = "_generate_with_retry" -> {[kind |-> "plain", val |-> <<"Hi">>]}
      [] OTHER -> JsonTexts \cup {NoText, [kind |-> "plain", val |-> <<"Hi">>]}
ServiceOutcomes(call) ==
    {[kind |-> "response", text |-> x] : x \in ResponseTexts(call)}
    \cup {[kind |-> "error", exc |-> Exc("ClientError", x)] : x \in ErrorTexts}

\* gemini not loaded
GeminiUntouched ==
    /\ _API_KEY = ""
    /\ _client = "None"
    /\ gemini_call = << >>
    /\ gemini_pc = "idle"
    /\ attempt = 0
    /\ delay = 0
    /\ calls = 0
    /\ waits = << >>
    /\ last_error = NoError
    /\ retry_outcome = NoResult
    /\ result = NoResult

----------------------------------------------------------------------------
(* core/views.py and the tables of core/models.py.  The text of an email,  *)
(* a name, a password or a title is a sequence of characters.  A worker    *)
(* thread handles one request at a time.  A signup is two steps, the       *)
(* lookup of the email and the save, and other requests run between them.  *)

\* requests are handled by the threads 1..MaxRequests
MaxRequests == 2
\* generate_courses and generate_certifications return 0..MaxGenerated items
MaxGenerated == 2

\* lines 107, 129: [:200]; models.py 80, 94: max_length=200
TitleLimit == 200

\* s[:n]
Take(s, n) == SubSeq(s, 1, min(n, Len(s)))

\* str.lower()
IsUpper(c) == \E k \in 1..26 : UpperLetters[k] = c
lower(s) ==
    [i \in 1..Len(s) |->
        IF IsUpper(s[i]) THEN LowerLetters[CHOOSE k \in 1..26 : UpperLetters[k] = s[i]]
        ELSE s[i]]

\* lines 39-43: "" for what is not a str, else the stripped text without
\* the characters < > " '
_sanitize_text(value) ==
    IF value.type # "str" THEN << >>
    ELSE SelectSeq(strip(value.val), LAMBDA c : c \notin {"<", ">", "\"", "'"})

IsLetter(c) == IsLower(c) \/ IsUpper(c)
IsDigit(c) == c \in {"0", "1", "2", "3", "4", "5", "6", "7", "8", "9"}

\* lines 46-47: ^[A-Za-z0-9._%+-]+@[A-Za-z0-9.-]+\.[A-Za-z]{2,}$
_is_valid_email(email) ==
    \E i \in 1..Len(email), j \in 1..Len(email) :
        /\ 1 < i /\ i + 1 < j /\ j + 2 <= Len(email)
        /\ email[i] = "@" /\ email[j] = "."
        /\ \A k \in 1..(i - 1) :
              IsLetter(email[k]) \/ IsDigit(email[k]) \/ email[k] \in {".", "_", "%", "+", "-"}
        /\ \A k \in (i + 1)..(j - 1) :
              IsLetter(email[k]) \/ IsDigit(email[k]) \/ email[k] \in {".", "-"}
        /\ \A k \in (j + 1)..Len(email) : IsLetter(email[k])

\* line 16: make_password, check_password: the hash tells only whether a
\* password is the one it was made of
make_password(password) == [hash_of |-> password]
check_password(password, encoded) == encoded.hash_of = password

\* settings.SECRET_KEY
SECRET_KEY == "SECRET_KEY"

\* lines 62-66: jwt.decode checks the signature and exp; PyNone on PyJWTError
_decode_token(token) ==
    IF token.key = SECRET_KEY /\ ~token.expired
    THEN [type |-> "dict", val |-> token.payload]
    ELSE PyNone

\* the key column of a table: models.py 16, 80, 94 (unique=True)
UniqueColumn(tbl) ==
    CASE tbl = "UserProfile" -> "email"
      [] tbl = "Course" -> "title"
      [] tbl = "Certification" -> "name"

\* Model.save() of a new row: the INSERT fails with IntegrityError when a
\* row has the value of the unique column
save_ignoring_unique(tbl, rows, row) == [error |-> "none", rows |-> Append(rows, row)]
save(tbl, rows, row) ==
    IF \E k \in 1..Len(rows) : rows[k][UniqueColumn(tbl)] = row[UniqueColumn(tbl)]
    THEN [error |-> "IntegrityError", rows |-> rows]
    ELSE [error |-> "none", rows |-> Append(rows, row)]

\* UserProfile.objects.filter(email=email).first()
first_with_email(email) ==
    IF \E k \in 1..Len(users) : users[k].email = email
    THEN users[Min({k \in 1..Len(users) : users[k].email = email})]
    ELSE PyNone

\* lines 69-83.  payload.get("email") is None without the key; None and ""
\* are both the empty text here
_get_user_from_request_any_token(request) ==
    IF request.header.scheme # "Bearer " THEN PyNone
    ELSE LET payload == [type |-> "dict", val |-> request.header.token.payload]
         IN  IF DOMAIN payload.val = {} THEN PyNone
             ELSE LET email == IF "email" \in DOMAIN payload.val
                               THEN payload.val.email ELSE << >>
                  IN  IF email = << >> THEN PyNone ELSE first_with_email(email)
_get_user_from_request(request) ==
    IF request.header.scheme # "Bearer " THEN PyNone
    ELSE LET payload == _decode_token(request.header.token)
         IN  IF payload.type = "NoneType" \/ DOMAIN payload.val = {} THEN PyNone
             ELSE LET email == IF "email" \in DOMAIN payload.val
                               THEN payload.val.email ELSE << >>
                  IN  IF email = << >> THEN PyNone ELSE first_with_email(email)

\* a thread that handles no request
Idle == [stage |-> "idle", row |-> << >>]

\* no auth_required view has been called.  status is 401, or 0 when the
\* view was called; unsaved are the items gemini returned to the view whose
\* title (name), cut to TitleLimit, no row holds when the view is over;
\* skipped and saved_after_skip tell whether a save of the view hit
\* IntegrityError and whether an item after it was saved
NoRequest == [view |-> "none", method |-> "none", header |-> << >>,
              status |-> 0, called |-> FALSE, current_user |-> PyNone,
              unsaved |-> [tbl \in {"Course", "Certification"} |-> << >>],
              skipped |-> FALSE, saved_after_skip |-> FALSE]

\* lines 164-218: auth_view up to the response, or, for a signup that passed
\* the checks, up to the UserProfile it is about to save (line 195)
auth_view(r, request) ==
    LET data == request.data
        email == lower(_sanitize_text(data.email))
        password == _sanitize_text(data.password)
        name == _sanitize_text(data.name)
        user == first_with_email(email)
        Respond(status) == requests' = [requests EXCEPT ![r] = Idle]
    IN  /\ requests[r].stage = "idle"
        /\ IF request.method # "POST" THEN Respond(405)
           ELSE IF email = << >> \/ password = << >> THEN Respond(400)
           ELSE IF ~_is_valid_email(email) THEN Respond(400)
           ELSE IF data.signup
           THEN IF Len(name) < 2 THEN Respond(400)
                ELSE IF Len(password) < 6 THEN Respond(400)
                ELSE IF user.type # "NoneType" THEN Respond(409)
                ELSE requests' = [requests EXCEPT ![r] =
                         [stage |-> "save",
                          row |-> [type |-> "UserProfile", email |-> email, name |-> name,
                                   password |-> make_password(password)]]]
           ELSE IF user.type = "NoneType" \/ ~check_password(password, user.password)
                THEN Respond(401)
                ELSE Respond(200)
        /\ UNCHANGED <<users, stored, last_request, gemini_vars, oracle_vars, progress_vars, flask_vars>>

\* line 195: user.save(); an IntegrityError is not caught and Django answers 500
user_save(r) ==
    LET saved == save("UserProfile", users, requests[r].row)
    IN  /\ requests[r].stage = "save"
        /\ users' = saved.rows
        /\ requests' = [requests EXCEPT ![r] = Idle]
        /\ UNCHANGED <<stored, last_request, gemini_vars, oracle_vars, progress_vars, flask_vars>>

\* lines 104-119, 126-137: the loop over the items gemini returned: each is
\* saved with its title (name) cut to TitleLimit; IntegrityError is passed over
RECURSIVE _save_from_ai(_, _, _)
_save_from_ai(tbl, rows, items) ==
    IF items = << >> THEN [rows |-> rows, skipped |-> FALSE, saved_after_skip |-> FALSE]
    ELSE LET column == UniqueColumn(tbl)
             saved == save(tbl, rows, [c \in {column} |-> Take(items[1][column], TitleLimit)])
             rest == _save_from_ai(tbl, saved.rows, Tail(items))
         IN  [rows |-> rest.rows,
              skipped |-> saved.error # "none" \/ rest.skipped,
              saved_after_skip |-> \/ rest.saved_after_skip
                                   \/ saved.error # "none" /\ Len(rest.rows) > Len(rows)]

\* the calls of _save_courses_from_ai and _save_certs_from_ai a view makes,
\* and whether it makes them only when the table is empty: lines 235-238,
\* 374, 457-458, 501
Saves(view) ==
    CASE view = "dashboard_view" ->
            {[tbl |-> "Course", if_none |-> TRUE], [tbl |-> "Certification", if_none |-> TRUE]}
      [] view = "recommend_courses_view" -> {[tbl |-> "Course", if_none |-> FALSE]}
      [] view = "learning_path_view" -> {[tbl |-> "Course", if_none |-> TRUE]}
      [] view = "recommend_certifications_view" ->
            {[tbl |-> "Certification", if_none |-> FALSE]}
AuthRequiredViews ==
    {"dashboard_view", "recommend_courses_view", "learning_path_view",
     "recommend_certifications_view"}

\* the view calls _save_..._from_ai for the table
CallsSave(view, tbl) ==
    \E s \in Saves(view) : s.tbl = tbl /\ (s.if_none => stored[tbl] = << >>)

\* the items that have no row in rows
Unsaved(tbl, rows, items) ==
    SelectSeq(items, LAMBDA item :
        \A k \in 1..Len(rows) :
            rows[k][UniqueColumn(tbl)] # Take(item[UniqueColumn(tbl)], TitleLimit))

\* the body of a view: each call of Saves(view) that is made runs the loop
\* on what gemini returned for it
ViewBody(view, generated) ==
    [tbl \in DOMAIN stored |->
        IF CallsSave(view, tbl)
        THEN _save_from_ai(tbl, stored[tbl], generated[tbl])
        ELSE _save_from_ai(tbl, stored[tbl], << >>)]

\* lines 86-95 and the view: _wrapped answers 401, or sets
\* request.current_user and calls the view, which answers 405 to what is not
\* a GET and else runs its body.  The request is taken by the free thread of
\* the lowest number
auth_required_skipped(r, view, request, generated) ==
    LET body == ViewBody(view, generated)
        run == request.method = "GET"
    IN  /\ requests[r].stage = "idle"
        /\ \A q \in 1..(r - 1) : requests[q].stage # "idle"
        /\ last_request' =
              [view |-> view, method |-> request.method, header |-> request.header,
               status |-> 0,
               called |-> TRUE, current_user |-> PyNone,
               unsaved |-> IF run THEN [tbl \in DOMAIN stored |->
                                          Unsaved(tbl, body[tbl].rows, generated[tbl])]
                           ELSE NoRequest.unsaved,
               skipped |-> run /\ \E tbl \in DOMAIN body : body[tbl].skipped,
               saved_after_skip |-> run /\ \E tbl \in DOMAIN body : body[tbl].saved_after_skip]
        /\ stored' = IF run THEN [tbl \in DOMAIN stored |-> body[tbl].rows] ELSE stored
        /\ UNCHANGED <<users, requests, gemini_vars, oracle_vars, progress_vars, flask_vars>>
auth_required(r, view, request, generated) ==
    LET user == _get_user_from_request(request)
        body == ViewBody(view, generated)
        run == user.type # "NoneType" /\ request.method = "GET"
    IN  /\ requests[r].stage = "idle"
        /\ \A q \in 1..(r - 1) : requests[q].stage # "idle"
        /\ last_request' =
              [view |-> view, method |-> request.method, header |-> request.header,
               status |-> IF user.type = "NoneType" THEN 401 ELSE 0,
               called |-> user.type # "NoneType", current_user |-> user,
               unsaved |-> IF run THEN [tbl \in DOMAIN stored |->
                                          Unsaved(tbl, body[tbl].rows, generated[tbl])]
                           ELSE NoRequest.unsaved,
               skipped |-> run /\ \E tbl \in DOMAIN body : body[tbl].skipped,
               saved_after_skip |-> run /\ \E tbl \in DOMAIN body : body[tbl].saved_after_skip]
        /\ stored' = IF run THEN [tbl \in DOMAIN stored |-> body[tbl].rows] ELSE stored
        /\ UNCHANGED <<users, requests, gemini_vars, oracle_vars, progress_vars, flask_vars>>

\* what the clients send.  An email arrives in lower case, with a capital
\* and a blank around it, without a top-level domain, empty, or as a number
EmailA == <<"a", "@", "x", ".", "i", "o">>
EmailB == <<"b", "@", "x", ".", "i", "o">>
EmailInputs ==
    {PyStr(EmailA), PyStr(<<" ", "A", "@", "x", ".", "i", "o">>), PyStr(EmailB),
     PyStr(<<"a", "@", "x">>), PyStr(<< >>), PyInt(7)}
PasswordInputs == {PyStr(<<"s", "e", "c", "r", "e", "t">>), PyStr(<<"a", "b", "c">>)}
NameInputs == {PyStr(<<"A", "l">>), PyStr(<<"<", "A", ">">>)}
AuthRequests ==
    [method : {"POST", "GET"},
     data : [signup : BOOLEAN, email : EmailInputs, password : PasswordInputs,
             name : NameInputs]]

\* the requests of clients that sign up and log in with well-formed data
SignupRequests ==
    [method : {"POST"},
     data : [signup : BOOLEAN,
             email : {PyStr(EmailA), PyStr(<<" ", "A", "@", "x", ".", "i", "o">>),
                      PyStr(EmailB)},
             password : {PyStr(<<"s", "e", "c", "r", "e", "t">>)},
             name : {PyStr(<<"A", "l">>)}]]

\* a token: the key it is signed with, whether its exp has passed, its claims
Token(key, expired, payload) == [key |-> key, expired |-> expired, payload |-> payload]
\* lines 53-59: the token of a user who has logged in
_create_token(email) == Token(SECRET_KEY, FALSE, [email |-> email])
Tokens ==
    {_create_token(EmailA), _create_token(EmailB),
     Token("other", FALSE, [email |-> EmailA]), Token(SECRET_KEY, TRUE, [email |-> EmailA]),
     Token(SECRET_KEY, FALSE, [iat |-> 0]), Token(SECRET_KEY, FALSE, << >>),
     Token(SECRET_KEY, FALSE, [email |-> << >>]),
     Token(SECRET_KEY, FALSE, [email |-> <<"A", "@", "x", ".", "i", "o">>])}
Header(scheme, token) == [scheme |-> scheme, token |-> token]
Headers ==
    {Header("Bearer ", token) : token \in Tokens}
    \cup {Header("", Token("none", FALSE, << >>)),
          Header("Basic ", _create_token(EmailA)),
          Header("bearer ", _create_token(EmailA))}
ViewRequests == [method : {"GET", "POST"}, header : Headers]
\* the requests of clients that have logged in
TokenRequests ==
    [method : {"GET"},
     header : {Header("Bearer ", _create_token(EmailA)),
               Header("Bearer ", _create_token(EmailB))}]

\* what gemini returns: items whose title (name) is short, or longer than
\* TitleLimit and equal to another up to TitleLimit
TitleA == <<"A">>
LongTitle(c) == [i \in 1..(TitleLimit + 1) |-> IF i <= TitleLimit THEN "x" ELSE c]
Titles == {TitleA, LongTitle("1"), LongTitle("2")}
RECURSIVE ListsUpTo(_, _)
ListsUpTo(S, n) ==
    IF n = 0 THEN {<< >>}
    ELSE ListsUpTo(S, n - 1)
         \cup {Append(l, x) : l \in {m \in ListsUpTo(S, n - 1) : Len(m) = n - 1}, x \in S}
GeneratedItems ==
    [tbl \in {"Course", "Certification"} |->
        ListsUpTo({[c \in {UniqueColumn(tbl)} |-> x] : x \in Titles}, MaxGenerated)]
\* what gemini returns in a request to the view for the table: a list if
\* the view makes the call
Generated(view, tbl) == IF CallsSave(view, tbl) THEN GeneratedItems[tbl] ELSE {<< >>}

----------------------------------------------------------------------------
(* core/views.py: the views that record what a user has done.  The user   *)
(* is logged in; dates are counted in days                                 *)

\* the days are 0..MaxDay
MaxDay == 3
\* the user has at most MaxActivities UserActivity rows
MaxActivities == 3

\* models.py 19-24: the row signup makes: completed_courses_data "[]",
\* earned_certifications_data "[]", performance_data with learning_hours 0
\* and skills_mastered 0
NewProfile == [completed_courses |-> << >>, earned_certifications |-> << >>,
               learning_hours |-> 0, skills_mastered |-> 0]

\* no request has been answered.  saved tells whether the request saved
\* the profile; streak is -1 in a response without a streak; turn changes
\* with every request
NoResponse == [view |-> "none", status |-> 0, message |-> "", title |-> << >>,
               saved |-> FALSE, streak |-> -1, turn |-> FALSE]
Response(view, status, message, item, saved, streak) ==
    [view |-> view, status |-> status, message |-> message, title |-> item,
     saved |-> saved, streak |-> streak, turn |-> ~last_response.turn]

\* x is in the Python list
In(x, list) == \E k \in 1..Len(list) : list[k] = x

\* the rows of the date
RowsOfDate(rows, date) == {k \in 1..Len(rows) : rows[k].date = date}

\* lines 438-444: get_or_create(user=user, date=today, defaults=...): makes
\* the row when there is none of the date, adds 2 to learning_hours of the
\* one there is, and raises MultipleObjectsReturned when there are several
get_or_create_activity(rows, date) ==
    LET found == RowsOfDate(rows, date)
    IN  IF found = {}
        THEN [error |-> "none",
              rows |-> Append(rows, [date |-> date, learning_hours |-> 2, score |-> 0])]
        ELSE IF Cardinality(found) = 1
        THEN [error |-> "none",
              rows |-> [k \in 1..Len(rows) |->
                           IF k \in found
                           THEN [rows[k] EXCEPT !.learning_hours = @ + 2] ELSE rows[k]]]
        ELSE [error |-> "MultipleObjectsReturned", rows |-> rows]

\* the activity written whether or not the title was completed before
mark_completed_view_always(value) ==
    LET course_title == _sanitize_text(value)
        activity == get_or_create_activity(activities, today)
    IN  IF course_title = << >>
        THEN /\ last_response' = Response("mark_completed_view", 400,
                                          "courseTitle is required", course_title, FALSE, -1)
             /\ UNCHANGED <<profile, activities>>
        ELSE /\ profile' = [profile EXCEPT
                               !.completed_courses = Append(@, course_title),
                               !.learning_hours = @ + 2,
                               !.skills_mastered = @ + 1]
             /\ activities' = activity.rows
             /\ last_response' = Response("mark_completed_view", 200,
                                          "Course marked as completed", course_title, TRUE, -1)

\* lines 414-446, after auth_required has let the POST through
mark_completed_view(value) ==
    LET course_title == _sanitize_text(value)
        completed == profile.completed_courses
        activity == get_or_create_activity(activities, today)
    IN  IF course_title = << >>
        THEN /\ last_response' = Response("mark_completed_view", 400,
                                          "courseTitle is required", course_title, FALSE, -1)
             /\ UNCHANGED <<profile, activities>>
        ELSE IF ~In(course_title, completed)
        THEN /\ profile' = [profile EXCEPT
                               !.completed_courses = Append(completed, course_title),
                               !.learning_hours = @ + 2,
                               !.skills_mastered = @ + 1]
             /\ activities' = activity.rows
             /\ last_response' =
                   IF activity.error # "none"
                   THEN Response("mark_completed_view", 500, activity.error,
                                 course_title, TRUE, -1)
                   ELSE Response("mark_completed_view", 200, "Course marked as completed",
                                 course_title, TRUE, -1)
        ELSE /\ last_response' = Response("mark_completed_view", 200,
                                          "Course marked as completed", course_title, FALSE, -1)
             /\ UNCHANGED <<profile, activities>>

\* lines 528-545, after auth_required has let the POST through
mark_certification_completed_view(value) ==
    LET cert_title == _sanitize_text(value)
        earned == profile.earned_certifications
    IN  /\ IF cert_title = << >>
           THEN /\ last_response' = Response("mark_certification_completed_view", 400,
                                             "title is required", cert_title, FALSE, -1)
                /\ UNCHANGED profile
           ELSE /\ profile' = IF In(cert_title, earned) THEN profile
                              ELSE [profile EXCEPT
                                       !.earned_certifications = Append(earned, cert_title)]
                /\ last_response' = Response("mark_certification_completed_view", 200,
                                             "Certification marked as completed",
                                             cert_title, ~In(cert_title, earned), -1)
        /\ UNCHANGED activities

\* lines 582-608, after auth_required has let the POST through: correct of
\* the total questions were answered right.  The average_score kept in
\* performance_data is left out: no view here reads it
check_answers_view(correct, total) ==
    IF total = 0
    THEN /\ last_response' = Response("check_answers_view", 200, "score", << >>, FALSE, -1)
         /\ UNCHANGED <<profile, activities, quiz_results>>
    ELSE LET quiz_score == (correct * 100) \div total
         IN  /\ Len(activities) < MaxActivities
             /\ quiz_results' = Append(quiz_results, quiz_score)
             /\ activities' = Append(activities, [date |-> today, learning_hours |-> 1,
                                                  score |-> quiz_score])
             /\ last_response' = Response("check_answers_view", 200, "score", << >>,
                                          TRUE, -1)
             /\ UNCHANGED profile

\* lines 332-336: the dates of the rows, order_by("-date")
RECURSIVE DatesFrom(_, _)
DatesFrom(rows, date) ==
    IF date < 0 THEN << >>
    ELSE [k \in 1..Cardinality(RowsOfDate(rows, date)) |-> date] \o DatesFrom(rows, date - 1)
activity_dates_of(rows) == DatesFrom(rows, MaxDay)

\* lines 343-348: the loop over the dates
RECURSIVE StreakLoop(_, _, _)
StreakLoop(dates, expected, streak) ==
    IF dates = << >> THEN streak
    ELSE IF Head(dates) = expected THEN StreakLoop(Tail(dates), expected - 1, streak + 1)
    ELSE IF Head(dates) < expected THEN streak
    ELSE StreakLoop(Tail(dates), expected, streak)

\* lines 331-349
Streak(activity_dates, day) ==
    IF activity_dates = << >> THEN 0
    ELSE StreakLoop(activity_dates,
                    IF activity_dates[1] >= day THEN day ELSE activity_dates[1], 0)

\* lines 315-363, after auth_required has let the GET through
performance_view ==
    /\ last_response' = Response("performance_view", 200, "perf", << >>, FALSE,
                                 Streak(activity_dates_of(activities), today))
    /\ UNCHANGED <<profile, activities, quiz_results>>

\* midnight
next_day ==
    /\ today < MaxDay
    /\ today' = today + 1
    /\ UNCHANGED <<profile, activities, quiz_results, last_response>>

\* what the client posts as courseTitle and as title
CourseTitleInputs ==
    {PyStr(<<"X">>), PyStr(<<" ", "X", ">">>), PyStr(<<"Y">>), PyStr(<<"<", ">">>),
     PyStr(<< >>), PyInt(7)}
CertificationTitleInputs == {PyStr(<<"C">>), PyStr(<< >>)}

\* the user has signed up and logged in, and has done nothing yet
ProgressUntouched ==
    /\ profile = NewProfile
    /\ activities = << >>
    /\ quiz_results = << >>
    /\ today = 0
    /\ last_response = NoResponse

----------------------------------------------------------------------------
(* app.py: the Flask endpoints auth and forgot_password.  mongo.db.user is *)
(* kept twice, for two runs that get the same forgot_password requests;    *)
(* auth works on run 1                                                     *)

\* lines 29, 30
MAX_LOGIN_ATTEMPTS == 5
LOCKOUT_DURATION == 900
\* time.time() is 0..MaxNow
MaxNow == 900
\* the seconds between two readings of the clock
Ticks == {450}

\* lines 68-73: a str is stripped and loses < > " '; anything else is
\* returned as it is
sanitize_input(data) ==
    IF data.type # "str" THEN data
    ELSE PyStr(SelectSeq(strip(data.val), LAMBDA c : c \notin {"<", ">", "\"", "'"}))

\* lines 32-35: the pattern is that of core/views.py
is_valid_email(email) == _is_valid_email(email)

\* lines 37-49
is_strong_password(password) ==
    /\ Len(password) >= 8
    /\ \E k \in 1..Len(password) : IsUpper(password[k])
    /\ \E k \in 1..Len(password) : IsLower(password[k])
    /\ \E k \in 1..Len(password) : IsDigit(password[k])
    /\ \E k \in 1..Len(password) :
          password[k] \in {"!", "@", "#", "$", "%", "^", "&", "*", "(", ")", ",", ".", "?",
                           "\"", ":", "{", "}", "|", "<", ">"}

\* werkzeug.security, lines 288 and 358: a hash is checked against the
\* password it was made of
generate_password_hash(password) == [pbkdf2_of |-> password]
check_password_hash(pwhash, password) == pwhash.pbkdf2_of = password

\* request.get_json() gave nothing
NoData == [type |-> "NoneType"]
\* a document without a reset token
NoToken == [sha256_of |-> << >>]

\* lines 298-316: the document signup inserts
NewUser(name, email, password) ==
    [name |-> name, email |-> email, password |-> generate_password_hash(password),
     is_active |-> TRUE, last_login |-> now,
     reset_token |-> NoToken, reset_token_expires |-> 0]

\* line 503: hashlib.sha256(f"{email}{datetime.utcnow()}").hexdigest()[:32]
ResetToken(email) == [sha256_of |-> <<email, now>>]

\* no request has been answered; turn changes with every request
NoForgotResponse ==
    [data |-> NoData, email |-> PyNone, turn |-> FALSE,
     answer |-> [run \in 1..2 |-> [status |-> 0, message |-> ""]]]

ResetLinkSent == "If an account with this email exists, a password reset link has been sent"

\* a run that tells the client that there is no account
ForgotPasswordIn_NotFound(store, data) ==
    IF data.type = "NoneType"
    THEN [store |-> store, status |-> 400, message |-> "No data provided"]
    ELSE IF sanitize_input(data.email).type # "str"
    THEN [store |-> store, status |-> 500,
          message |-> "An error occurred. Please try again later."]
    ELSE LET email == lower(sanitize_input(data.email).val)
         IN  IF email = << >> \/ ~is_valid_email(email)
             THEN [store |-> store, status |-> 400,
                   message |-> "Please provide a valid email address"]
             ELSE IF email \notin DOMAIN store
             THEN [store |-> store, status |-> 404, message |-> "No account with this email"]
             ELSE [store |-> [store EXCEPT ![email].reset_token = ResetToken(email),
                                           ![email].reset_token_expires = now + 3600],
                   status |-> 200, message |-> ResetLinkSent]

\* lines 487-522 in one run: what the request does to the store of the
\* run, and the response
ForgotPasswordIn(store, data) ==
    IF data.type = "NoneType"
    THEN [store |-> store, status |-> 400, message |-> "No data provided"]
    ELSE IF sanitize_input(data.email).type # "str"
    THEN [store |-> store, status |-> 500,
          message |-> "An error occurred. Please try again later."]
    ELSE LET email == lower(sanitize_input(data.email).val)
         IN  IF email = << >> \/ ~is_valid_email(email)
             THEN [store |-> store, status |-> 400,
                   message |-> "Please provide a valid email address"]
             ELSE [store |-> IF email \in DOMAIN store
                             THEN [store EXCEPT ![email].reset_token = ResetToken(email),
                                                ![email].reset_token_expires = now + 3600]
                             ELSE store,
                   status |-> 200, message |-> ResetLinkSent]

\* the email the request is about, PyNone if it has none that is a str
EmailIn(data) ==
    IF data.type = "NoneType" THEN PyNone
    ELSE IF sanitize_input(data.email).type # "str" THEN PyNone
    ELSE PyStr(lower(sanitize_input(data.email).val))

\* forgot_password answers the same request in both runs
forgot_password(data) ==
    LET done == [run \in 1..2 |-> ForgotPasswordIn(mongo_user[run], data)]
    IN  /\ mongo_user' = [run \in 1..2 |-> done[run].store]
        /\ forgot_response' =
              [data |-> data, email |-> EmailIn(data), turn |-> ~forgot_response.turn,
               answer |-> [run \in 1..2 |-> [status |-> done[run].status,
                                             message |-> done[run].message]]]
        /\ UNCHANGED <<login_attempts, now, auth_response>>

\* the old attempts are counted too
check_rate_limit_keeping_all(attempts) ==
    [attempts |-> attempts, ok |-> Len(attempts) < MAX_LOGIN_ATTEMPTS]

\* lines 51-62: login_attempts[ip_address] without the attempts that are
\* LOCKOUT_DURATION old, and whether the IP may go on
check_rate_limit(attempts) ==
    LET kept == SelectSeq(attempts, LAMBDA attempt_time : now - attempt_time < LOCKOUT_DURATION)
    IN  [attempts |-> kept, ok |-> Len(kept) < MAX_LOGIN_ATTEMPTS]

\* lines 64-66
record_failed_attempt(attempts) == Append(attempts, now)

\* lines 246-382, after the rate limit let the request through: the status,
\* whether mongo.db.user was read, and the store after the request
AuthBody(store, data) ==
    IF data.type = "NoneType" THEN [status |-> 400, read |-> FALSE, store |-> store]
    ELSE IF sanitize_input(data.email).type # "str"
    THEN [status |-> 500, read |-> FALSE, store |-> store]
    ELSE LET email == lower(sanitize_input(data.email).val)
             password == sanitize_input(data.password).val
             name == IF data.signup THEN sanitize_input(data.name).val ELSE << >>
         IN  IF email = << >> \/ password = << >>
             THEN [status |-> 400, read |-> FALSE, store |-> store]
             ELSE IF ~is_valid_email(email)
             THEN [status |-> 400, read |-> FALSE, store |-> store]
             ELSE IF data.signup
             THEN IF name = << >> \/ Len(strip(name)) < 2
                  THEN [status |-> 400, read |-> FALSE, store |-> store]
                  ELSE IF ~is_strong_password(password)
                  THEN [status |-> 400, read |-> FALSE, store |-> store]
                  ELSE IF email \in DOMAIN store
                  THEN [status |-> 409, read |-> TRUE, store |-> store]
                  ELSE [status |-> 201, read |-> TRUE,
                        store |-> [e \in DOMAIN store \cup {email} |->
                                      IF e = email THEN NewUser(strip(name), email, password)
                                      ELSE store[e]]]
             ELSE IF email \notin DOMAIN store
             THEN [status |-> 401, read |-> TRUE, store |-> store]
             ELSE IF ~store[email].is_active
             THEN [status |-> 403, read |-> TRUE, store |-> store]
             ELSE IF ~check_password_hash(store[email].password, password)
             THEN [status |-> 401, read |-> TRUE, store |-> store]
             ELSE [status |-> 200, read |-> TRUE,
                   store |-> [store EXCEPT ![email].last_login = now]]

\* no request has been answered.  dropped is the number of old attempts
\* check_rate_limit took off the list, recorded whether the request was
\* recorded as a failed attempt, read and written whether it read and
\* wrote mongo.db.user; turn changes with every request
NoAuthResponse == [method |-> "", ip |-> "", status |-> 0, dropped |-> 0, recorded |-> FALSE,
                   read |-> FALSE, written |-> FALSE, turn |-> FALSE]

\* lines 233-386: a request from client_ip
auth(method, client_ip, data) ==
    LET limit == check_rate_limit(login_attempts[client_ip])
        body == AuthBody(mongo_user[1], data)
        recorded == limit.ok /\ body.status \notin {200, 201}
    IN  IF method = "OPTIONS"
        THEN /\ auth_response' =
                   [method |-> method, ip |-> client_ip, status |-> 200, dropped |-> 0,
                    recorded |-> FALSE, read |-> FALSE, written |-> FALSE,
                    turn |-> ~auth_response.turn]
             /\ UNCHANGED <<mongo_user, login_attempts, forgot_response, now>>
        ELSE /\ login_attempts' =
                   [login_attempts EXCEPT ![client_ip] =
                       IF recorded THEN record_failed_attempt(limit.attempts)
                       ELSE limit.attempts]
             /\ mongo_user' =
                   IF limit.ok THEN [mongo_user EXCEPT ![1] = body.store] ELSE mongo_user
             /\ auth_response' =
                   [method |-> method, ip |-> client_ip,
                    status |-> IF limit.ok THEN body.status ELSE 429,
                    dropped |-> Len(login_attempts[client_ip]) - Len(limit.attempts),
                    recorded |-> recorded,
                    read |-> limit.ok /\ body.read,
                    written |-> limit.ok /\ body.store # mongo_user[1],
                    turn |-> ~auth_response.turn]
             /\ UNCHANGED <<forgot_response, now>>

\* the clock is read later
tick(seconds) ==
    /\ now + seconds <= MaxNow
    /\ now' = now + seconds
    /\ UNCHANGED <<mongo_user, forgot_response, login_attempts, auth_response>>

\* what the clients send
StrongPassword == <<"S", "e", "c", "r", "e", "t", "1", "!">>
ForgotData ==
    {NoData} \cup [type : {"dict"}, email : EmailInputs]
AuthData ==
    {NoData}
    \cup [type : {"dict"}, signup : {FALSE}, email : {PyStr(EmailA)},
          password : {PyStr(StrongPassword), PyStr(<<"w", "r", "o", "n", "g">>)},
          name : {PyStr(<< >>)}]
    \cup [type : {"dict"}, signup : {TRUE}, email : {PyStr(EmailA)},
          password : {PyStr(StrongPassword)}, name : {PyStr(<<"A", "l">>)}]
\* the addresses the requests come from
Client == "10.0.0.1"
Other == "10.0.0.2"
ClientIps == {Client, Other}
\* the client at Other fails at most MaxOtherAttempts times
MaxOtherAttempts == 2

\* the stores with the accounts of some of the emails
Stores ==
    {[e \in S |-> [name |-> <<"A", "l">>, email |-> e,
                   password |-> generate_password_hash(StrongPassword), is_active |-> TRUE,
                   last_login |-> 0, reset_token |-> NoToken, reset_token_expires |-> 0]] :
        S \in SUBSET {EmailA, EmailB}}

\* the server has just started, its collection is empty
FlaskUntouched ==
    /\ mongo_user = [run \in 1..2 |-> << >>]
    /\ forgot_response = NoForgotResponse
    /\ login_attempts = [ip \in ClientIps |-> << >>]
    /\ now = 0
    /\ auth_response = NoAuthResponse

\* the server before its first request
CursorUntouched ==
    /\ wrapper_call = [method |-> "none", sql |-> PyNone, params |-> PyNone]
    /\ pc = "idle"
    /\ cursor_calls = << >>
    /\ table = << >>
ViewsUntouched ==
    /\ users = << >>
    /\ stored = [tbl \in {"Course", "Certification"} |-> << >>]
    /\ requests = [r \in 1..MaxRequests |-> Idle]
    /\ last_request = NoRequest
AppUntouched == GeminiUntouched /\ ViewsUntouched /\ ProgressUntouched /\ FlaskUntouched

----------------------------------------------------------------------------
(* The statements and parameters the wrapper is called with *)

\* words separated by single spaces
RECURSIVE Words(_)
Words(ws) == IF Len(ws) <= 1 THEN ws ELSE <<ws[1], SP>> \o Words(Tail(ws))

\* a clause: a space, then its words
Clause(ws) == <<SP>> \o Words(ws)

SelectStar == Words(<<"SELECT", "*">>)

FromClauses ==
    { << >>,
      Clause(<<"FROM", "T">>),
      <<SP, "from", SP, DQ, "T", DQ>>,
      Clause(<<"FROM", "T", "CROSS", "JOIN", "U">>),
      <<SP, "FROM", SP, "(">> \o Words(<<"SELECT", "*", "FROM", "T">>) \o <<")">>,
      <<SP, "FROM", SP, "(">>
          \o Words(<<"SELECT", "*", "FROM", "T", "WHERE", "B", "=", "1">>)
          \o <<")">> }

WhereClauses ==
    { << >>,
      Clause(<<"WHERE", "A", "=", "1">>),
      Clause(<<"WHERE", "A", "=", "1", "OR", "B", "=", "1">>),
      Clause(<<"WHERE", "A", "=", "1", "AND", "B", "=", "1">>),
      Clause(<<"where", "A", "=", "%s">>),
      Clause(<<"WHERE", "A", "=", "%s", "OR", "B", "=", "%s">>) }

MiddleClauses ==
    { << >>,
      Clause(<<"GROUP", "BY", "A">>),
      Clause(<<"OFFSET", "1", "ROWS">>) }

OrderByClauses ==
    { << >>,
      Clause(<<"ORDER", "BY", "X">>),
      <<SP, "order", SP, NL, "by", SP, "X">> }

\* the clause as the ORM emits it, in upper and in lower case
FetchFirstClauses ==
    {Clause(<<"FETCH", "FIRST", n, "ROWS", "ONLY">>) : n \in Digits}
        \cup {<<NL>> \o Words(<<"fetch", "first", n, "rows", "only">>) : n \in Digits}

\* texts that the pattern does not match
NoFetchFirstClauses ==
    { << >>,
      <<SP, "FETCH", SP, SP, "FIRST", SP, "1", SP, "ROWS", SP, "ONLY">>,
      Clause(<<"FETCH", "NEXT", "1", "ROWS", "ONLY">>),
      Clause(<<"FETCH", "FIRST", "1", "ROW", "ONLY">>),
      Clause(<<"FETCH", "FIRST", "%s", "ROWS", "ONLY">>) }

Tails == { << >>, <<SP>> }

Statements ==
    { SelectStar \o f \o w \o m \o o \o l \o t :
        f \in FromClauses, w \in WhereClauses, m \in MiddleClauses,
        o \in OrderByClauses, l \in FetchFirstClauses \cup NoFetchFirstClauses,
        t \in Tails }

SqlInputs ==
    {PyStr(s) : s \in Statements}
        \cup { PyNone,
               PyBytes(SelectStar \o Clause(<<"FROM", "T">>)
                        \o Clause(<<"FETCH", "FIRST", "1", "ROWS", "ONLY">>)) }

PyTuple(s) == [type |-> "tuple", val |-> s]
PyList(s) == [type |-> "list", val |-> s]

ParamInputs == {PyNone, PyTuple(<<1>>), PyTuple(<<1, 0>>)}
ParamListInputs == {PyList(<<PyTuple(<<1>>)>>), PyList(<<PyTuple(<<1, 0>>), PyTuple(<<0, 1>>)>>)}

----------------------------------------------------------------------------
(* The cursor wrapper called with any statement and parameters *)

WrapperCalls ==
    [method : {"execute"}, sql : SqlInputs, params : ParamInputs]
        \cup [method : {"executemany"}, sql : SqlInputs, params : ParamListInputs]

\* no schema operation has run
NoSchemaOp == [op |-> "none", process |-> 1, table |-> << >>, column |-> << >>,
               error |-> "none", raised |-> << >>, ddl |-> << >>]

SchemaUntouched ==
    /\ db_tables = {}
    /\ sequences = << >>
    /\ triggers = << >>
    /\ process = 1
    /\ last_op = NoSchemaOp
    /\ before = [sequences |-> << >>, triggers |-> << >>]
    /\ names_seen = << >>
    /\ names_of = << >>
    /\ op_log = << >>
    /\ table_rows = << >>
    /\ last_insert = NoInsert
    /\ high_key = << >>

Init ==
    /\ wrapper_call \in WrapperCalls
    /\ pc = "called"
    /\ cursor_calls = << >>
    /\ table = << >>
    /\ SchemaUntouched
    /\ AppUntouched

Next == execute \/ executemany

Spec == Init /\ [][Next]_vars

----------------------------------------------------------------------------
(* The cursor wrapper called with limited queries on a table with rows *)

QueryFromClauses ==
    { Clause(<<"FROM", "T">>),
      Clause(<<"FROM", "T", "CROSS", "JOIN", "U">>),
      <<SP, "FROM", SP, "(">> \o Words(<<"SELECT", "*", "FROM", "T">>) \o <<")">>,
      <<SP, "FROM", SP, "(">>
          \o Words(<<"SELECT", "*", "FROM", "T", "WHERE", "B", "=", "1">>)
          \o <<")">> }

QueryWhereClauses ==
    { << >>,
      Clause(<<"WHERE", "A", "=", "1">>),
      Clause(<<"WHERE", "A", "=", "1", "OR", "B", "=", "1">>),
      Clause(<<"WHERE", "A", "=", "1", "AND", "B", "=", "1">>) }

QueryInputs ==
    { PyStr(SelectStar \o f \o w \o o
              \o Clause(<<"FETCH", "FIRST", n, "ROWS", "ONLY">>)) :
        f \in QueryFromClauses, w \in QueryWhereClauses,
        o \in {<< >>, Clause(<<"ORDER", "BY", "X">>)}, n \in Digits }

TableRows == [A : 0..1, B : 0..1, X : 1..MaxRows, U : {0}]

\* tables of at most MaxRows rows whose sort keys differ
Tables ==
    UNION { { r \in [1..n -> TableRows] :
                \A i, j \in 1..n : i # j => r[i].X # r[j].X } : n \in 0..MaxRows }

InitQuery ==
    /\ wrapper_call \in [method : {"execute"}, sql : QueryInputs, params : {PyNone}]
    /\ pc = "called"
    /\ cursor_calls = << >>
    /\ table \in Tables
    /\ SchemaUntouched
    /\ AppUntouched

NextQuery == execute

SpecQuery == InitQuery /\ [][NextQuery]_vars

----------------------------------------------------------------------------
(* The schema editor run by migrations *)

\* a database in which core_course exists, core_quizresult may not exist
\* yet, and no auto-increment object has been made
InitSchema ==
    /\ process = 1
    /\ names_of = << >>
    /\ db_tables \in {S \in SUBSET {quote_name(p[1]) : p \in AutoColumns} :
                          quote_name(core_course) \in S}
    /\ sequences = << >>
    /\ triggers = << >>
    /\ last_op = NoSchemaOp
    /\ before = [sequences |-> << >>, triggers |-> << >>]
    /\ names_seen = << >>
    /\ wrapper_call = [method |-> "none", sql |-> PyNone, params |-> PyNone]
    /\ pc = "idle"
    /\ cursor_calls = << >>
    /\ table = << >>
    /\ op_log = << >>
    /\ table_rows = [T \in db_tables |-> << >>]
    /\ last_insert = NoInsert
    /\ high_key = [T \in db_tables |-> 0]
    /\ AppUntouched

\* the rows an INSERT into table_name may give: each column null or a value
NewRows(table_name) == [Columns(table_name) -> {Null} \cup (1..MaxKey)]

NextSchema ==
    \/ \E p \in AutoColumns :
           _create_legacy_autoincrement(p[1], p[2]) /\ UNCHANGED op_log
    \/ \E p \in AutoColumns, fault1, fault2 \in {"none"} \cup OtherErrors :
           _drop_legacy_autoincrement(p[1], p[2], fault1, fault2) /\ UNCHANGED op_log
    \/ start_process
    \/ exit_process

SpecSchema == InitSchema /\ [][NextSchema]_vars

\* the schema editor and the inserts of one process, for the one column
\* of core_quizresult
InsertColumns == {<<core_quizresult, id>>}

NextInserts ==
    \/ \E p \in InsertColumns :
           _create_legacy_autoincrement(p[1], p[2]) /\ UNCHANGED op_log
    \/ \E p \in InsertColumns, fault1, fault2 \in {"none"} \cup OtherErrors :
           _drop_legacy_autoincrement(p[1], p[2], fault1, fault2) /\ UNCHANGED op_log
    \/ \E p \in InsertColumns : \E new \in NewRows(p[1]) : insert(p[1], new)
    \/ start_process

SpecInserts == InitSchema /\ [][NextInserts]_vars

\* a run of up to MaxOps creates and drops, none of which the database
\* disturbs, with every call and its outcome recorded
LoggedColumns == {<<core_course, id>>, <<core_quizresult, id>>}

Logged(op, p) == Append(op_log, [op |-> op, pair |-> p, error |-> last_op'.error])

NextLogged ==
    \/ start_process
    \/ /\ Len(op_log) < MaxOps
       /\ \E p \in LoggedColumns :
              /\ _create_legacy_autoincrement(p[1], p[2])
              /\ op_log' = Logged("create", p)
    \/ /\ Len(op_log) < MaxOps
       /\ \E p \in LoggedColumns :
              /\ _drop_legacy_autoincrement(p[1], p[2], "none", "none")
              /\ op_log' = Logged("drop", p)

SpecLogged == InitSchema /\ [][NextLogged]_vars

\* migrations that create and delete the models of an empty database
InitModels ==
    /\ SchemaUntouched
    /\ CursorUntouched
    /\ AppUntouched

NextModels ==
    \/ \E model \in Models : create_model(model)
    \/ \E model \in Models, fault1, fault2 \in {"none"} \cup OtherErrors :
           delete_model(model, fault1, fault2)
    \/ start_process
    \/ exit_process

SpecModels == InitModels /\ [][NextModels]_vars

----------------------------------------------------------------------------
(* The functions of core/gemini.py called in any order, the service        *)
(* answering each attempt as it likes                                      *)

InitGemini ==
    /\ _API_KEY \in {"", "key"}
    /\ _client = "None"
    /\ gemini_call = << >>
    /\ gemini_pc = "idle"
    /\ attempt = 0
    /\ delay = 0
    /\ calls = 0
    /\ waits = << >>
    /\ last_error = NoError
    /\ retry_outcome = NoResult
    /\ result = NoResult
    /\ ProgressUntouched
    /\ FlaskUntouched
    /\ CursorUntouched
    /\ SchemaUntouched
    /\ ViewsUntouched

NextGemini ==
    \/ \E call \in GeminiCalls : call_gemini(call)
    \/ /\ gemini_pc = "attempt"
       /\ \E outcome \in ServiceOutcomes(gemini_call) : generate_content(outcome)

SpecGemini == InitGemini /\ [][NextGemini]_vars

----------------------------------------------------------------------------
(* The views called by clients, MaxRequests at a time *)

InitViews ==
    /\ ViewsUntouched
    /\ GeminiUntouched
    /\ ProgressUntouched
    /\ FlaskUntouched
    /\ CursorUntouched
    /\ SchemaUntouched

NextViews ==
    \E r \in 1..MaxRequests :
        \/ \E request \in SignupRequests : auth_view(r, request)
        \/ user_save(r)
        \/ \E view \in AuthRequiredViews, request \in TokenRequests :
              \E courses \in Generated(view, "Course") :
                 \E certifications \in Generated(view, "Certification") :
                    auth_required(r, view, request,
                                  [Course |-> courses, Certification |-> certifications])

SpecViews == InitViews /\ [][NextViews]_vars

----------------------------------------------------------------------------
(* The views called by one client after another, with every kind of        *)
(* Authorization header                                                    *)

\* what gemini returns in the request: one item for each call the view makes
OneGenerated(view) ==
    [tbl \in {"Course", "Certification"} |->
        IF CallsSave(view, tbl) THEN <<[c \in {UniqueColumn(tbl)} |-> TitleA]>> ELSE << >>]

NextAuth ==
    \/ \E request \in AuthRequests : auth_view(1, request)
    \/ user_save(1)
    \/ \E view \in AuthRequiredViews, request \in ViewRequests :
          auth_required(1, view, request, OneGenerated(view))

SpecAuth == InitViews /\ [][NextAuth]_vars

----------------------------------------------------------------------------
(* The requests of one user who is logged in, over the days *)

InitProgress == InitViews

\* what a request of the user leaves alone
OtherThanProgress == <<today, gemini_vars, views_vars, oracle_vars, flask_vars>>

NextProgress ==
    \/ \E value \in CourseTitleInputs :
          mark_completed_view(value) /\ UNCHANGED <<quiz_results, OtherThanProgress>>
    \/ \E value \in CertificationTitleInputs :
          /\ mark_certification_completed_view(value)
          /\ UNCHANGED <<quiz_results, OtherThanProgress>>
    \/ \E total \in 0..1 : \E correct \in 0..total :
          check_answers_view(correct, total) /\ UNCHANGED OtherThanProgress
    \/ performance_view /\ UNCHANGED OtherThanProgress
    \/ next_day /\ UNCHANGED <<gemini_vars, views_vars, oracle_vars, flask_vars>>

SpecProgress == InitProgress /\ [][NextProgress]_vars

----------------------------------------------------------------------------
(* forgot_password in two runs whose stores hold different accounts *)

\* what the Flask endpoints leave alone
OtherThanFlask == <<gemini_vars, views_vars, progress_vars, oracle_vars>>

InitForgot ==
    /\ mongo_user \in [1..2 -> Stores]
    /\ forgot_response = NoForgotResponse
    /\ login_attempts = [ip \in ClientIps |-> << >>]
    /\ now = 0
    /\ auth_response = NoAuthResponse
    /\ GeminiUntouched /\ ViewsUntouched /\ ProgressUntouched
    /\ CursorUntouched /\ SchemaUntouched

NextForgot ==
    \/ \E data \in ForgotData : forgot_password(data) /\ UNCHANGED OtherThanFlask
    \/ \E seconds \in Ticks : tick(seconds) /\ UNCHANGED OtherThanFlask

SpecForgot == InitForgot /\ [][NextForgot]_vars

(* auth called from two addresses as time goes by *)

InitRateLimit ==
    /\ mongo_user = [run \in 1..2 |-> << >>]
    /\ forgot_response = NoForgotResponse
    /\ login_attempts = [ip \in ClientIps |-> << >>]
    /\ now = 0
    /\ auth_response = NoAuthResponse
    /\ GeminiUntouched /\ ViewsUntouched /\ ProgressUntouched
    /\ CursorUntouched /\ SchemaUntouched

NextRateLimit ==
    \/ \E data \in AuthData : auth("POST", Client, data) /\ UNCHANGED OtherThanFlask
    \/ auth("OPTIONS", Client, NoData) /\ UNCHANGED OtherThanFlask
    \/ /\ Len(login_attempts[Other]) < MaxOtherAttempts
       /\ auth("POST", Other, NoData)
       /\ UNCHANGED OtherThanFlask
    \/ \E seconds \in Ticks : tick(seconds) /\ UNCHANGED OtherThanFlask

SpecRateLimit == InitRateLimit /\ [][NextRateLimit]_vars

----------------------------------------------------------------------------
(* What the claims speak of, read off the statement as a reader of SQL     *)
(* would, not as the patterns of the code do                               *)

\* the statement the wrapper was given and the one the driver received
GivenSql == wrapper_call.sql
SentSql == cursor_calls[1].args[1]
Returned == pc = "returned" /\ Len(cursor_calls) = 1

\* lexemes i..i+8 read FETCH FIRST <digits> ROWS ONLY in any letter case
ClauseAt(s, i) ==
    /\ i + 8 <= Len(s)
    /\ <<Upper(s[i]), s[i + 1], Upper(s[i + 2]), s[i + 3], s[i + 5],
         Upper(s[i + 6]), s[i + 7], Upper(s[i + 8])>>
           = <<"FETCH", " ", "FIRST", " ", " ", "ROWS", " ", "ONLY">>
    /\ \E n \in 0..MaxLimit : s[i + 4] = ToString(n)

HasClause(s) == \E i \in 1..Len(s) : ClauseAt(s, i)
ClausePos(s) == CHOOSE i \in 1..Len(s) : ClauseAt(s, i) /\ \A j \in 1..(i - 1) : ~ClauseAt(s, j)
ClauseLimit(s) == s[ClausePos(s) + 4]

\* the statement without its clause and without the blanks before it
ClauseRemoved(s) ==
    LET i == ClausePos(s)
        keep == {k \in 1..(i - 1) : s[k] \notin {" ", "\n"}}
        last == IF keep = {} THEN 0 ELSE CHOOSE k \in keep : \A m \in keep : m <= k
    IN  [k \in 1..(last + Len(s) - (i + 8)) |->
            IF k <= last THEN s[k] ELSE s[k - last + i + 8]]

\* positions of the keywords
KeywordAt(s, i, kw) == i \in 1..Len(s) /\ Upper(s[i]) = kw
HasKeyword(s, kw) == \E i \in 1..Len(s) : KeywordAt(s, i, kw)
FirstKeyword(s, kw) ==
    CHOOSE i \in 1..Len(s) : KeywordAt(s, i, kw) /\ \A j \in 1..(i - 1) : ~KeywordAt(s, j, kw)

\* ORDER, blanks, BY
HasOrderBy(s) ==
    \E i \in 1..Len(s), j \in 1..Len(s) :
        /\ i + 1 < j
        /\ KeywordAt(s, i, "ORDER") /\ KeywordAt(s, j, "BY")
        /\ \A k \in (i + 1)..(j - 1) : s[k] \in {" ", "\n"}

\* s with the lexemes ins put in after position k
InsertAfter(s, k, ins) ==
    [n \in 1..(Len(s) + Len(ins)) |->
        IF n <= k THEN s[n]
        ELSE IF n <= k + Len(ins) THEN ins[n - k]
        ELSE s[n - Len(ins)]]

\* a table name: lexemes of letters, digits, quotes and dots
IsNameLexeme(x) == x \notin {" ", "\n", "*", "(", ")", "=", "<=", ",", "%s"}

\* FROM at i, blanks, then a table name that ends at lexeme e
TableRefAfter(s, i, e) ==
    /\ KeywordAt(s, i, "FROM")
    /\ \E b \in (i + 2)..e :
          /\ \A k \in (i + 1)..(b - 1) : s[k] \in {" ", "\n"}
          /\ \A k \in b..e : IsNameLexeme(s[k])
    /\ e = Len(s) \/ ~IsNameLexeme(s[e + 1])

\* the bind placeholders in order, each with the operand it is compared to
RECURSIVE BindSitesFrom(_, _)
BindSitesFrom(toks, i) ==
    IF i > Len(toks) THEN << >>
    ELSE IF toks[i] = "%s"
         THEN <<IF i > 2 THEN toks[i - 2] ELSE "">> \o BindSitesFrom(toks, i + 1)
         ELSE BindSitesFrom(toks, i + 1)

IsToken(x) == x \notin {" ", "\n"}
BindSites(s) == BindSitesFrom(SelectSeq(s, IsToken), 1)

----------------------------------------------------------------------------
(* Claims on _rewrite_fetch_first and OracleCursorWrapper *)

\* C1 as claimed: the statement sent for '<stmt> FETCH FIRST N ROWS ONLY'
\* runs without error and returns at most N rows, each of them a row of the
\* result of <stmt>; with an ORDER BY they are the first N rows of that
\* result.  This for every shape of <stmt> the database accepts: OR in the
\* predicate, a join after the FROM table, a subquery as the FROM table.
C1_AtMostNRowsOfOriginal ==
    Returned /\ GivenSql.type = "str" /\ HasClause(GivenSql.val)
             /\ DriverResult([type |-> "str", val |-> ClauseRemoved(GivenSql.val)]).ok
        => LET original == DriverResult([type |-> "str",
                                         val |-> ClauseRemoved(GivenSql.val)]).rows
               n == Num(ClauseLimit(GivenSql.val))
               got == DriverResult(SentSql)
           IN  /\ got.ok
               /\ Len(got.rows) <= n
               /\ \A i \in 1..Len(got.rows) :
                     \E j \in 1..Len(original) : got.rows[i] = original[j]
               /\ HasOrderBy(GivenSql.val) =>
                     got.rows = SubSeq(original, 1,
                                       IF n < Len(original) THEN n ELSE Len(original))

\* C2: an input that holds no FETCH FIRST <digits> ROWS ONLY clause (in any
\* letter case), and an input that is not a str, reaches the driver
\* unchanged: _rewrite_fetch_first returns it as it is.
C2_NoClauseIsIdentity ==
    Returned /\ (GivenSql.type # "str" \/ ~HasClause(GivenSql.val))
        => SentSql = GivenSql

\* C2 witness: a str with ORDER BY, WHERE and a FETCH NEXT clause, which the
\* pattern does not match, has gone through the rewrite.
C2_Witness ==
    /\ Returned
    /\ GivenSql.type = "str"
    /\ ~HasClause(GivenSql.val)
    /\ HasKeyword(GivenSql.val, "FETCH") /\ HasKeyword(GivenSql.val, "NEXT")
    /\ HasKeyword(GivenSql.val, "WHERE") /\ HasOrderBy(GivenSql.val)

\* C3: with a FETCH FIRST N ROWS ONLY clause and an ORDER BY, the result is
\* exactly SELECT * FROM (<statement without the clause>) WHERE ROWNUM <= N:
\* nothing is injected into the inner statement.
C3_OrderByWraps ==
    Returned /\ GivenSql.type = "str" /\ HasClause(GivenSql.val)
             /\ HasOrderBy(GivenSql.val)
        => SentSql =
             [type |-> "str",
              val |-> <<"SELECT", " ", "*", " ", "FROM", " ", "(">>
                        \o ClauseRemoved(GivenSql.val)
                        \o <<")", " ", "WHERE", " ", "ROWNUM", " ", "<=", " ",
                             ClauseLimit(GivenSql.val)>>]

\* C3 witness: a statement with WHERE, ORDER BY and the clause was rewritten.
C3_Witness ==
    /\ Returned /\ GivenSql.type = "str"
    /\ HasClause(GivenSql.val) /\ HasOrderBy(GivenSql.val)
    /\ HasKeyword(GivenSql.val, "WHERE") /\ HasKeyword(GivenSql.val, "FROM")

\* C4: with the clause, no ORDER BY and a WHERE keyword, the result is the
\* statement without the clause with ROWNUM <= N AND put in right after the
\* first WHERE (which comes out in upper case) and nowhere else; every other
\* lexeme is kept, in order.
C4_WhereInjects ==
    Returned /\ GivenSql.type = "str" /\ HasClause(GivenSql.val)
             /\ ~HasOrderBy(GivenSql.val) /\ HasKeyword(GivenSql.val, "WHERE")
        => LET r == ClauseRemoved(GivenSql.val)
               w == FirstKeyword(r, "WHERE")
           IN  SentSql =
                 [type |-> "str",
                  val |-> InsertAfter([r EXCEPT ![w] = "WHERE"], w,
                            <<" ", "ROWNUM", " ", "<=", " ",
                              ClauseLimit(GivenSql.val), " ", "AND">>)]

\* C4 witness: a statement with two WHERE keywords (one in a subquery) and
\* the clause, without ORDER BY, was rewritten.
C4_Witness ==
    /\ Returned /\ GivenSql.type = "str"
    /\ HasClause(GivenSql.val) /\ ~HasOrderBy(GivenSql.val)
    /\ \E i, j \in 1..Len(GivenSql.val) :
          i < j /\ KeywordAt(GivenSql.val, i, "WHERE")
                /\ KeywordAt(GivenSql.val, j, "WHERE")

\* C5 as claimed: with the clause and neither ORDER BY nor WHERE, the result
\* is the statement without the clause with " WHERE ROWNUM <= N" put in right
\* after the table reference of the first FROM: after the table name that
\* follows it, or after the closing parenthesis when a subquery follows it.
C5_AfterFirstFrom ==
    Returned /\ GivenSql.type = "str" /\ HasClause(GivenSql.val)
             /\ ~HasOrderBy(GivenSql.val) /\ ~HasKeyword(GivenSql.val, "WHERE")
             /\ HasKeyword(GivenSql.val, "FROM")
        => LET r == ClauseRemoved(GivenSql.val)
               f == FirstKeyword(r, "FROM")
               ends == {e \in 1..Len(r) : TableRefAfter(r, f, e)}
               close == {e \in f..Len(r) : r[e] = ")"}
               e == IF ends # {} THEN CHOOSE x \in ends : TRUE
                    ELSE IF close # {} THEN Min(close)
                    ELSE Len(r)
           IN  SentSql =
                 [type |-> "str",
                  val |-> InsertAfter(r, e,
                            <<" ", "WHERE", " ", "ROWNUM", " ", "<=", " ",
                              ClauseLimit(GivenSql.val)>>)]

\* What the code does where C5 fails: the predicate is put in right after
\* the table name of the first FROM keyword that is followed by blanks and a
\* table name; a FROM followed by a parenthesised subquery is passed over,
\* and the predicate then limits the subquery, not the statement.
AfterFirstFromWithTableName ==
    Returned /\ GivenSql.type = "str" /\ HasClause(GivenSql.val)
             /\ ~HasOrderBy(GivenSql.val) /\ ~HasKeyword(GivenSql.val, "WHERE")
        => LET r == ClauseRemoved(GivenSql.val)
               ends == {e \in 1..Len(r) : \E f \in 1..Len(r) : TableRefAfter(r, f, e)}
           IN  ends # {}
                 => SentSql =
                      [type |-> "str",
                       val |-> InsertAfter(r,
                                 CHOOSE e \in ends : \A x \in ends : e <= x,
                                 <<" ", "WHERE", " ", "ROWNUM", " ", "<=", " ",
                                   ClauseLimit(GivenSql.val)>>)]

\* a statement whose FROM table is followed by a join, with the clause and
\* neither ORDER BY nor WHERE, was rewritten
AfterFirstFromWithTableName_Reached ==
    /\ Returned /\ GivenSql.type = "str"
    /\ HasClause(GivenSql.val)
    /\ ~HasOrderBy(GivenSql.val) /\ ~HasKeyword(GivenSql.val, "WHERE")
    /\ HasKeyword(GivenSql.val, "FROM") /\ HasKeyword(GivenSql.val, "JOIN")
    /\ HasKeyword(SentSql.val, "ROWNUM")

\* C6 as claimed: with the clause and no ORDER BY, no WHERE and no FROM, the
\* driver receives the statement as it was given, the clause still in it.
C6_NoFromPassesThrough ==
    Returned /\ GivenSql.type = "str" /\ HasClause(GivenSql.val)
             /\ ~HasOrderBy(GivenSql.val) /\ ~HasKeyword(GivenSql.val, "WHERE")
             /\ ~HasKeyword(GivenSql.val, "FROM")
        => SentSql = GivenSql /\ HasClause(SentSql.val)

\* C7: the bind placeholders of the result are those of the input: as many,
\* in the same order, each still bound to the same operand.
C7_PlaceholdersKept ==
    Returned /\ GivenSql.type = "str"
        => BindSites(SentSql.val) = BindSites(GivenSql.val)

\* C7 witness: a statement with two placeholders and the clause was
\* rewritten (the text sent differs from the text given).
C7_Witness ==
    /\ Returned /\ GivenSql.type = "str"
    /\ HasClause(GivenSql.val)
    /\ Len(BindSites(GivenSql.val)) = 2
    /\ SentSql # GivenSql

\* C8: a call of execute or executemany makes exactly one call of the same
\* method on the driver's cursor, with the rewrite of its statement and the
\* caller's params object as it is; execute with params None passes the
\* statement alone; nothing reaches the driver before the rewrite.
C8_OneRewrittenCall ==
    /\ pc = "called" => cursor_calls = << >>
    /\ pc = "returned" =>
          /\ Len(cursor_calls) = 1
          /\ cursor_calls[1].method = wrapper_call.method
          /\ cursor_calls[1].args =
                IF wrapper_call.method = "execute"
                     /\ wrapper_call.params.type = "NoneType"
                THEN <<_rewrite_fetch_first(wrapper_call.sql)>>
                ELSE <<_rewrite_fetch_first(wrapper_call.sql), wrapper_call.params>>

\* C8 witness: executemany was called with a statement that the rewrite
\* changes and with a list of two parameter tuples.
C8_Witness ==
    /\ Returned
    /\ wrapper_call.method = "executemany"
    /\ Len(wrapper_call.params.val) = 2
    /\ SentSql # GivenSql

----------------------------------------------------------------------------
(* Claims on DatabaseSchemaEditor *)

UpperHexDigits ==
    {"0", "1", "2", "3", "4", "5", "6", "7", "8", "9", "A", "B", "C", "D", "E", "F"}

\* names is SQ_<s>, TR_<s> with one suffix s of 10 upper-case hex digits
IsLegacyNamePair(names) ==
    /\ Len(names) = 2
    /\ Len(names[1]) = 13 /\ Len(names[2]) = 13
    /\ SubSeq(names[1], 1, 3) = <<"S", "Q", "_">>
    /\ SubSeq(names[2], 1, 3) = <<"T", "R", "_">>
    /\ SubSeq(names[1], 4, 13) = SubSeq(names[2], 4, 13)
    /\ \A k \in 4..13 : names[1][k] \in UpperHexDigits

TriggersFor(p, trigs) ==
    {n \in DOMAIN trigs : /\ trigs[n].table = StrUpper(p[1])
                          /\ trigs[n].assigns = StrUpper(p[2])}

\* the CREATE SEQUENCE statements among ddl
CreatedSequences(ddl) ==
    {ddl[k][2] : k \in {j \in 1..Len(ddl) : ddl[j][1] = "CREATE SEQUENCE"}}

\* C10: _create_legacy_autoincrement never fails with ORA-00955 (name already
\* used) and never issues CREATE SEQUENCE for a sequence that exists; called
\* for a column of an existing table it succeeds and leaves exactly one
\* trigger for the pair, fed by a sequence that exists, every object that
\* was there before as it was (a sequence keeps its next value), a new
\* sequence at 1, and nothing at all changed if both objects were there.
C10_CreateIsIdempotent ==
    last_op.op = "create" =>
        LET p == <<last_op.table, last_op.column>>
            made == TriggersFor(p, triggers)
        IN  /\ last_op.error # "ORA-00955"
            /\ CreatedSequences(last_op.ddl) \cap DOMAIN before.sequences = {}
            /\ StrUpper(last_op.table) \in db_tables =>
                  /\ last_op.error = "none"
                  /\ Cardinality(made) = 1
                  /\ \A n \in made :
                        LET s == triggers[n].sequence
                        IN  /\ DOMAIN triggers = DOMAIN before.triggers \cup {n}
                            /\ \A m \in DOMAIN before.triggers \ {n} :
                                  triggers[m] = before.triggers[m]
                            /\ DOMAIN sequences = DOMAIN before.sequences \cup {s}
                            /\ \A r \in DOMAIN before.sequences :
                                  sequences[r] = before.sequences[r]
                            /\ s \notin DOMAIN before.sequences => sequences[s] = 1
                            /\ n \in DOMAIN before.triggers /\ s \in DOMAIN before.sequences
                                  => /\ triggers = before.triggers
                                     /\ sequences = before.sequences

\* C10 witness: create has just run for a pair whose trigger existed and
\* whose sequence existed and had handed out a value.
C10_Witness ==
    /\ last_op.op = "create" /\ last_op.error = "none"
    /\ \E n \in TriggersFor(<<last_op.table, last_op.column>>, before.triggers) :
          /\ before.triggers[n].sequence \in DOMAIN before.sequences
          /\ before.sequences[before.triggers[n].sequence] > 1

\* the names of the objects of pair p, as the dictionary stores them
SequenceNameOf(p) == StrUpper((CHOOSE names \in names_seen[p].names : TRUE)[1])
TriggerNameOf(p) == StrUpper((CHOOSE names \in names_seen[p].names : TRUE)[2])

\* C11: _drop_legacy_autoincrement swallows ORA-04080 from the trigger drop
\* and ORA-02289 from the sequence drop and nothing else: it fails with the
\* first other error a statement raised and succeeds when there is none,
\* whether the objects were there or not; after an error of the trigger drop
\* the sequence drop is not issued and the dictionary is as it was; after a
\* trigger drop without error the trigger is gone, and after a sequence drop
\* without error the sequence is gone too.
C11_DropSwallowsOnlyAbsence ==
    last_op.op = "drop" =>
        LET p == <<last_op.table, last_op.column>>
            r == last_op.raised
            trigger_ok == r[1] \in {"none", "ORA-04080"}
        IN  /\ trigger_ok <=> Len(r) = 2
            /\ ~trigger_ok =>
                  /\ last_op.error = r[1]
                  /\ \A k \in 1..Len(last_op.ddl) : last_op.ddl[k][1] # "DROP SEQUENCE"
                  /\ sequences = before.sequences /\ triggers = before.triggers
            /\ trigger_ok =>
                  /\ (r[1] = "ORA-04080") <=> (TriggerNameOf(p) \notin DOMAIN before.triggers)
                  /\ TriggerNameOf(p) \notin DOMAIN triggers
                  /\ last_op.error = IF r[2] \in {"none", "ORA-02289"} THEN "none" ELSE r[2]
                  /\ (r[2] = "ORA-02289") => SequenceNameOf(p) \notin DOMAIN before.sequences
                  /\ last_op.error = "none" => SequenceNameOf(p) \notin DOMAIN sequences
                  /\ last_op.error # "none" => sequences = before.sequences

\* C11 witness: the trigger drop of a pair that had its trigger and its
\* sequence raised another error; the drop failed with it.
C11_Witness ==
    /\ last_op.op = "drop" /\ last_op.error \in OtherErrors
    /\ Len(last_op.raised) = 1
    /\ TriggerNameOf(<<last_op.table, last_op.column>>) \in DOMAIN before.triggers
    /\ SequenceNameOf(<<last_op.table, last_op.column>>) \in DOMAIN sequences

\* a drop of a pair whose trigger was gone and whose sequence was there
\* succeeded
DropOfPartlyAbsent_Reached ==
    /\ last_op.op = "drop" /\ last_op.error = "none"
    /\ last_op.raised = <<"ORA-04080", "none">>

\* the recorded calls for pair p, in order
CallsFor(p) == SelectSeq(op_log, LAMBDA e : e.pair = p)

\* C12: in a run of creates and drops that no other database error
\* disturbs, in any order and with any repetition, every call for a column
\* of an existing table succeeds.
C12_EveryStepSucceeds ==
    \A k \in 1..Len(op_log) :
        StrUpper(op_log[k].pair[1]) \in db_tables => op_log[k].error = "none"

\* C12 witness: create, drop, create, drop and once more drop were called
\* for core_course:id, with a call for another pair in between, and each of
\* them succeeded.
C12_Witness ==
    /\ [k \in 1..Len(CallsFor(<<core_course, id>>)) |-> CallsFor(<<core_course, id>>)[k].op]
          = <<"create", "drop", "create", "drop", "drop">>
    /\ \A k \in 1..Len(op_log) : op_log[k].error = "none"
    /\ op_log[3].pair = <<core_quizresult, id>>

\* create was called twice in a row for one pair and succeeded both times
CreateTwice_Reached ==
    \E k \in 1..(Len(op_log) - 1) :
        /\ op_log[k].op = "create" /\ op_log[k + 1].op = "create"
        /\ op_log[k].pair = op_log[k + 1].pair
        /\ op_log[k].error = "none" /\ op_log[k + 1].error = "none"

\* the sequences and the triggers named in the calls for pair p
SequencesNamedFor(p) == {StrUpper(names[1]) : names \in names_seen[p].names}
TriggersNamedFor(p) == {StrUpper(names[2]) : names \in names_seen[p].names}

\* f without the elements of S in its domain
Without(f, S) == [x \in DOMAIN f \ S |-> f[x]]

\* C13: a drop that succeeds for pair p leaves no sequence and no trigger
\* that any call for p named, in whichever process create made them, and
\* leaves every other sequence and trigger as it was; no other pair's
\* objects bear the names of p's, so the objects made for the other pairs
\* are among those that stay.
C13_DropRemovesItsOwnOnly ==
    last_op.op = "drop" /\ last_op.error = "none" =>
        LET p == <<last_op.table, last_op.column>>
        IN  /\ sequences = Without(before.sequences, SequencesNamedFor(p))
            /\ triggers = Without(before.triggers, TriggersNamedFor(p))
            /\ TriggersFor(p, triggers) = {}
            /\ \A q \in DOMAIN names_seen \ {p} :
                  /\ SequencesNamedFor(q) \cap SequencesNamedFor(p) = {}
                  /\ TriggersNamedFor(q) \cap TriggersNamedFor(p) = {}
                  /\ TriggersFor(q, triggers) = TriggersFor(q, before.triggers)

\* C13 witness: core_course:id, whose objects an earlier process made, was
\* dropped while core_course:rank had its trigger and its sequence; the drop
\* removed the two objects of core_course:id and those of core_course:rank
\* are still there.
C13_Witness ==
    /\ last_op.op = "drop" /\ last_op.error = "none"
    /\ last_op.table = core_course /\ last_op.column = id
    /\ last_op.process > names_seen[<<core_course, id>>].first
    /\ last_op.raised = <<"none", "none">>
    /\ <<core_course, rank>> \in DOMAIN names_seen
    /\ \E n \in TriggersFor(<<core_course, rank>>, triggers) :
          triggers[n].sequence \in DOMAIN sequences
    /\ Cardinality(DOMAIN before.sequences) = Cardinality(DOMAIN sequences) + 1

\* the trigger that fed column c of the last INSERT
FeederOf(c) ==
    CHOOSE n \in DOMAIN before.triggers :
        /\ before.triggers[n].table = StrUpper(last_insert.table)
        /\ before.triggers[n].assigns = StrUpper(c)

\* C14: in an INSERT that the triggers let through, a column given a value
\* keeps that value and is not assigned; a column is assigned only if it
\* was null and the table has the trigger create made for it, and then it
\* holds the value its sequence was at and the sequence is one further; an
\* INSERT in which no column is assigned leaves every sequence where it was.
C14_TriggerFillsNullOnly ==
    last_op.op = "insert" /\ last_insert.error # "ORA-04098" =>
        /\ \A c \in DOMAIN last_insert.new :
              /\ last_insert.new[c] # Null =>
                    /\ last_insert.row[c] = last_insert.new[c]
                    /\ c \notin last_insert.assigned
              /\ c \in last_insert.assigned <=>
                    /\ last_insert.new[c] = Null
                    /\ TriggersFor(<<last_insert.table, c>>, before.triggers) # {}
              /\ c \in last_insert.assigned =>
                    /\ last_insert.row[c] = before.sequences[before.triggers[FeederOf(c)].sequence]
                    /\ sequences[before.triggers[FeederOf(c)].sequence] = last_insert.row[c] + 1
        /\ last_insert.assigned = {} => sequences = before.sequences

\* C14 witness: an INSERT gave id the value 2 while the table had its
\* trigger and the sequence stood at 1; the row has id 2 and the sequence
\* still stands at 1.
C14_Witness ==
    /\ last_op.op = "insert" /\ last_insert.error = "none"
    /\ last_insert.new[id] = 2 /\ last_insert.row[id] = 2
    /\ \E n \in TriggersFor(<<last_insert.table, id>>, triggers) :
          /\ triggers[n].sequence \in DOMAIN sequences
          /\ sequences[triggers[n].sequence] = 1

\* an INSERT with id null was given the sequence's second value
SecondKeyAssigned_Reached ==
    /\ last_op.op = "insert" /\ last_insert.error = "none"
    /\ last_insert.assigned = {id} /\ last_insert.row[id] = 2

\* C15 as claimed: a key that a trigger assigns to id is greater than every
\* key a trigger assigned to id of that table before, and no row that the
\* table held before the INSERT has it.
C15_KeysAscendingAndUnique ==
    last_op.op = "insert" /\ id \in last_insert.assigned =>
        /\ last_insert.row[id] > last_insert.high_before
        /\ LET rows == table_rows[StrUpper(last_insert.table)]
               held == IF last_insert.error = "none"
                       THEN SubSeq(rows, 1, Len(rows) - 1) ELSE rows
           IN  \A k \in 1..Len(held) : held[k][id] # last_insert.row[id]

----------------------------------------------------------------------------
(* Claims on core/gemini.py *)

\* generate_content was called max_retries + 1 times with max_retries
\* sleeps between, and the last error was raised
AllRetriesUsed ==
    /\ gemini_pc = "done" /\ gemini_call.fn = "_generate_with_retry"
    /\ gemini_call.max_retries = MaxRetries
    /\ calls = MaxRetries + 1 /\ Len(waits) = MaxRetries
    /\ result = Raise(last_error)

\* in every state of a call, generate_content has been called at most
\* max_retries + 1 times and time.sleep at most max_retries times, and a
\* call of _generate_with_retry that is over has returned or raised
AttemptsAreBounded ==
    gemini_pc # "idle" =>
        /\ calls <= gemini_call.max_retries + 1
        /\ Len(waits) <= gemini_call.max_retries
        /\ gemini_pc = "done" => result.kind \in {"returned", "raised"}

\* C16 as claimed: a call makes at most max_retries + 1 calls of
\* generate_content and at most max_retries sleeps, and a call of
\* _generate_with_retry that reached the service ends by returning the
\* response of the service or by raising the last error of the service.
C16_BoundedThenResponseOrLastError ==
    gemini_pc # "idle" =>
        /\ calls <= gemini_call.max_retries + 1
        /\ Len(waits) <= gemini_call.max_retries
        /\ gemini_pc = "done" /\ gemini_call.fn = "_generate_with_retry" /\ calls > 0 =>
              \/ result.kind = "returned" /\ result.value.kind = "response"
              \/ result.kind = "raised" /\ result = Raise(last_error)

\* the backoff variable never passes the cap, and it reaches it
DelayIsCapped == delay <= DelayCap
DelayAtCap_Reached == delay = DelayCap /\ Len(waits) = 3

\* C17 as claimed: every wait is at most 60 seconds, and a wait below 60
\* seconds is followed by a wait that is not shorter.
C17_WaitsCappedAndNotDecreasing ==
    /\ \A k \in 1..Len(waits) : waits[k] <= DelayCap
    /\ \A k \in 1..(Len(waits) - 1) : waits[k] < DelayCap => waits[k + 1] >= waits[k]

PublicFunctions ==
    {"generate_courses", "generate_certifications", "generate_quiz", "chat_response"}

\* the call got no answer it can use: _generate_with_retry raised (no key,
\* an error of the service), or the text it returned does not validate
CallFailed ==
    \/ retry_outcome.kind = "raised"
    \/ /\ retry_outcome.kind = "returned"
       /\ IF gemini_call.fn = "chat_response"
          THEN retry_outcome.value.text.kind = "none"
          ELSE ~Validates(gemini_call.fn, retry_outcome.value.text)

\* a public function fell back after all its attempts were rate-limited
FallbackAfterRetries_Reached ==
    /\ gemini_pc = "done" /\ gemini_call.fn = "generate_quiz"
    /\ calls = DefaultMaxRetries + 1 /\ CallFailed
    /\ result = Return([topic |-> "python", questions |-> << >>])

\* with interests that are all str, a public function that is over has
\* returned, its fallback when the call failed
NeverRaiseWithStrInterests ==
    /\ gemini_pc = "done" /\ gemini_call.fn \in PublicFunctions
    /\ \A i \in 1..Len(gemini_call.interests) : gemini_call.interests[i].type = "str"
    => /\ result.kind = "returned"
       /\ CallFailed => result.value = Fallback(gemini_call)

\* C18 as claimed: a public function that is over has returned, and when it
\* had no key or the service ended in an error, it returned its fallback.
C18_PublicFunctionsNeverRaise ==
    gemini_pc = "done" /\ gemini_call.fn \in PublicFunctions =>
        /\ result.kind = "returned"
        /\ CallFailed => result.value = Fallback(gemini_call)

\* the text of a rate-limit error (line 47)
IsRateLimit(err_str) == Contains(err_str, Mark429) \/ Contains(err_str, MarkExhausted)

\* an error that is no rate-limit error was raised at its attempt, the
\* first here, without a sleep
OtherErrorRaisedAtOnce_Reached ==
    /\ gemini_pc = "done" /\ gemini_call.fn = "_generate_with_retry"
    /\ gemini_call.max_retries = MaxRetries
    /\ calls = 1 /\ waits = << >>
    /\ ~IsRateLimit(last_error.text) /\ retry_outcome = Raise(last_error)

\* sleeps and further calls follow rate-limit errors only: while the loop
\* runs every call so far ended in a rate-limit error and was followed by
\* one sleep; a loop that ended by raising slept once after each call but
\* the last; a rate-limit error ends the loop only when its text has a
\* delay that is no number or on the last allowed attempt
RetriesOnlyOnRateLimit ==
    /\ gemini_pc = "attempt" /\ calls > 0 =>
          IsRateLimit(last_error.text) /\ Len(waits) = calls
    /\ gemini_pc = "done" /\ retry_outcome.kind = "raised" /\ calls > 0 =>
          /\ Len(waits) = calls - 1
          /\ IsRateLimit(last_error.text) /\ retry_outcome = Raise(last_error) =>
                calls = gemini_call.max_retries + 1
          /\ ~IsRateLimit(last_error.text) => retry_outcome = Raise(last_error)

\* C22 as claimed: a sleep and a further call follow a rate-limit error
\* only; an error that is no rate-limit error, and a rate-limit error on
\* attempt max_retries, ends the loop with no sleep after it, and what
\* _generate_with_retry raises is that error.
C22_RaisedAtItsAttemptWithoutSleep ==
    /\ gemini_pc = "attempt" /\ calls > 0 =>
          IsRateLimit(last_error.text) /\ Len(waits) = calls
    /\ gemini_pc = "done" /\ retry_outcome.kind = "raised" /\ calls > 0 =>
          /\ Len(waits) = calls - 1
          /\ ~IsRateLimit(last_error.text) => retry_outcome = Raise(last_error)
          /\ IsRateLimit(last_error.text) /\ calls = gemini_call.max_retries + 1 =>
                retry_outcome = Raise(last_error)

----------------------------------------------------------------------------
(* Claims on core/views.py *)

\* no two rows of the table have the same value in the column
NoTwoShare(rows, column) ==
    \A i \in 1..Len(rows), j \in 1..Len(rows) : i # j => rows[i][column] # rows[j][column]

CutTitleSavedOnce_Reached ==
    /\ last_request.view = "recommend_courses_view" /\ last_request.skipped
    /\ stored["Course"] = <<[title |-> [i \in 1..TitleLimit |-> "x"]]>>

\* the header is a Bearer token that decodes and verifies and carries the
\* email of a stored user
Authorized(header) ==
    /\ header.scheme = "Bearer "
    /\ header.token.key = SECRET_KEY
    /\ ~header.token.expired
    /\ "email" \in DOMAIN header.token.payload
    /\ header.token.payload.email # << >>
    /\ \E k \in 1..Len(users) : users[k].email = header.token.payload.email

\* C20: a request to a view wrapped by auth_required whose header is not a
\* Bearer token, or whose token does not verify, carries no email or the
\* email of no stored user, is answered 401, the view is not called and no
\* stored row changes; the view is called only for a header that has all of
\* these, with current_user the stored user of the token's email.
C20_UnauthorizedOrCurrentUser ==
    [][/\ last_request' # last_request =>
             /\ ~Authorized(last_request'.header) =>
                   /\ last_request'.status = 401
                   /\ ~last_request'.called
                   /\ stored' = stored /\ users' = users
             /\ last_request'.called =>
                   /\ Authorized(last_request'.header)
                   /\ last_request'.status # 401
                   /\ \E k \in 1..Len(users) : last_request'.current_user = users[k]
                   /\ last_request'.current_user.email =
                         last_request'.header.token.payload.email
       /\ last_request' = last_request => stored' = stored]_vars

\* C20 witness: with a user and a course stored, a request with the token
\* the server would give to an email that no user has was answered 401.
C20_Witness ==
    /\ last_request.header = Header("Bearer ", _create_token(EmailB))
    /\ last_request.status = 401 /\ ~last_request.called
    /\ Len(users) = 1 /\ users[1].email = EmailA
    /\ Len(stored["Course"]) = 1

\* a view was called for the stored user of the token, and saved a course
ViewCalledForUser_Reached ==
    /\ last_request.called /\ last_request.method = "GET"
    /\ last_request.current_user.type = "UserProfile"
    /\ last_request.current_user.email = EmailA
    /\ Len(stored["Course"]) = 1

\* a request with an expired token of a stored user was answered 401
ExpiredToken401_Reached ==
    /\ last_request.header = Header("Bearer ", Token(SECRET_KEY, TRUE, [email |-> EmailA]))
    /\ last_request.status = 401
    /\ \E k \in 1..Len(users) : users[k].email = EmailA

----------------------------------------------------------------------------
(* Claims on create_model and delete_model *)

\* the model of the table, its auto fields' (table, column) pairs, and all
\* the pairs of auto fields
ModelOf(table_name) == CHOOSE model \in Models : model.db_table = table_name
AutoPairs(model) ==
    {<<model.db_table, model.local_fields[k].column>> :
        k \in {j \in 1..Len(model.local_fields) :
                  model.local_fields[j].type
                     \in {"AutoField", "BigAutoField", "SmallAutoField"}}}
AllAutoPairs == UNION {AutoPairs(model) : model \in Models}

\* the positions in ddl of the statements of the kind on one of the names
PositionsOf(ddl, kind, object_names) ==
    {k \in 1..Len(ddl) : ddl[k][1] = kind /\ ddl[k][2] \in object_names}

\* C27: create_model issues CREATE TABLE first and the statements for the
\* sequences and triggers after it, and when it succeeds the table is there
\* and every auto column has its sequence and its trigger; delete_model
\* issues DROP TABLE last, after the drops of the trigger and the sequence
\* of every auto column, and when it succeeds the table, the sequences and
\* the triggers of the model are gone, so that nothing of a model created
\* and then deleted remains; a trigger or a sequence is only ever one of an
\* auto column.
C27_TableFirstThenAutoIncrements ==
    /\ last_op.op = "create_model" =>
          LET T == StrUpper(last_op.table)
              ddl == last_op.ddl
          IN  /\ ddl # << >> /\ ddl[1] = <<"CREATE TABLE", T>>
              /\ \A k \in 2..Len(ddl) :
                    ddl[k][1] \in {"CREATE SEQUENCE", "CREATE OR REPLACE TRIGGER"}
              /\ last_op.error = "none" =>
                    /\ T \in db_tables
                    /\ \A pair \in AutoPairs(ModelOf(last_op.table)) :
                          /\ SequencesNamedFor(pair) \subseteq DOMAIN sequences
                          /\ TriggersNamedFor(pair) \subseteq DOMAIN triggers
                          /\ TriggersFor(pair, triggers) = TriggersNamedFor(pair)
    /\ last_op.op = "delete_model" =>
          LET T == StrUpper(last_op.table)
              ddl == last_op.ddl
              tables == PositionsOf(ddl, "DROP TABLE", {T})
          IN  /\ \A k \in 1..Len(ddl) : ddl[k][1] = "DROP TABLE" => k = Len(ddl)
              /\ tables # {} =>
                    \A pair \in AutoPairs(ModelOf(last_op.table)) :
                       /\ PositionsOf(ddl, "DROP TRIGGER", TriggersNamedFor(pair)) # {}
                       /\ PositionsOf(ddl, "DROP SEQUENCE", SequencesNamedFor(pair)) # {}
              /\ last_op.error = "none" =>
                    /\ tables # {}
                    /\ T \notin db_tables
                    /\ \A n \in DOMAIN triggers : triggers[n].table # T
                    /\ \A pair \in AutoPairs(ModelOf(last_op.table)) :
                          /\ SequencesNamedFor(pair) \cap DOMAIN sequences = {}
                          /\ TriggersNamedFor(pair) \cap DOMAIN triggers = {}
    /\ \A n \in DOMAIN triggers :
          \E pair \in AllAutoPairs \cap DOMAIN names_seen :
             n \in TriggersNamedFor(pair) /\ n \in TriggersFor(pair, triggers)
    /\ \A s \in DOMAIN sequences :
          \E pair \in AllAutoPairs \cap DOMAIN names_seen : s \in SequencesNamedFor(pair)

\* C27 witness: delete_model succeeded on a model that create_model had
\* made, with its table, sequence and trigger: the three are gone, and the
\* other model is still whole.
C27_Witness ==
    /\ last_op.op = "delete_model" /\ last_op.error = "none"
    /\ last_op.table = core_course
    /\ last_op.raised = <<"none", "none", "none">>
    /\ TriggersFor(<<core_course, id>>, before.triggers) # {}
    /\ SequencesNamedFor(<<core_course, id>>) \subseteq DOMAIN before.sequences
    /\ StrUpper(core_course) \notin db_tables
    /\ StrUpper(core_quizresult) \in db_tables
    /\ Cardinality(DOMAIN sequences) = 1 /\ Cardinality(DOMAIN triggers) = 1

\* create_model succeeded: the table, one sequence and one trigger were made
ModelCreated_Reached ==
    /\ last_op.op = "create_model" /\ last_op.error = "none"
    /\ Len(last_op.ddl) = 3
    /\ before.sequences = << >> /\ Cardinality(DOMAIN sequences) = 1
    /\ Cardinality(DOMAIN triggers) = 1

----------------------------------------------------------------------------
(* Claims on the views that record what a user has done *)

\* the days on which the user has an activity
ActiveDays == {activities[k].date : k \in 1..Len(activities)}

\* the number of days in a row, up to day, each with an activity
RECURSIVE RunEndingAt(_, _)
RunEndingAt(days, day) == IF day \notin days THEN 0 ELSE 1 + RunEndingAt(days, day - 1)

\* the run of days with an activity that ends today, or yesterday when
\* today has none
ConsecutiveDays ==
    IF today \in ActiveDays THEN RunEndingAt(ActiveDays, today)
    ELSE RunEndingAt(ActiveDays, today - 1)

\* the step answers a request to the view
Answers(view) ==
    last_response'.turn # last_response.turn /\ last_response'.view = view

\* when the user has no activity, or one today or yesterday, the streak of
\* performance_view is the run of days that ends today or yesterday
StreakOfRecentActivity ==
    [][Answers("performance_view")
       /\ (ActiveDays = {} \/ today \in ActiveDays \/ today - 1 \in ActiveDays)
       => last_response'.streak = ConsecutiveDays]_vars

\* a streak of two days that ended yesterday was returned, of activities
\* of which two are of one day
StreakEndingYesterday_Reached ==
    /\ last_response.view = "performance_view" /\ last_response.streak = 2
    /\ today \notin ActiveDays /\ today - 1 \in ActiveDays
    /\ Len(activities) = 3

\* C23 as claimed: the streak performance_view returns is the number of
\* days in a row with an activity, in the run that ends today or yesterday,
\* each day counted once, and 0 when the last activity is older than
\* yesterday.
C23_StreakEndsTodayOrYesterday ==
    [][Answers("performance_view") => last_response'.streak = ConsecutiveDays]_vars

\* a first request for a title got the success response and made the
\* activity of the day
MarkedCompleted_Reached ==
    /\ last_response.view = "mark_completed_view" /\ last_response.status = 200
    /\ last_response.saved
    /\ activities = <<[date |-> today, learning_hours |-> 2, score |-> 0]>>

\* with at most one activity on each day, a request with a title gets the
\* success response
SuccessWithOneActivityADay ==
    /\ last_response.view = "mark_completed_view" /\ last_response.title # << >>
    /\ \A day \in ActiveDays : Cardinality(RowsOfDate(activities, day)) = 1
    => last_response.status = 200

\* C25 as claimed: the response to a POST to mark_completed_view with a
\* courseTitle that is not empty is the success response, and no response
\* of the view is a failure after the profile was saved.
C25_MarkCompletedAlwaysSucceeds ==
    last_response.view = "mark_completed_view" =>
        /\ last_response.title # << >> =>
              /\ last_response.status = 200
              /\ last_response.message = "Course marked as completed"
        /\ ~(last_response.saved /\ last_response.status # 200)

\* C26: a request to mark_completed_view for a title that is in the
\* completed list leaves the profile and the activities as they are and
\* gets the success response; a request for a title that is not in it adds
\* the title at the end, 2 to learning_hours and 1 to skills_mastered; the
\* list never holds a title twice.
C26_MarkCompletedIdempotent ==
    [][Answers("mark_completed_view") /\ last_response'.title # << >> =>
          /\ IF In(last_response'.title, profile.completed_courses)
             THEN /\ profile' = profile
                  /\ activities' = activities
                  /\ last_response'.status = 200
                  /\ last_response'.message = "Course marked as completed"
             ELSE /\ profile'.completed_courses =
                        Append(profile.completed_courses, last_response'.title)
                  /\ profile'.learning_hours = profile.learning_hours + 2
                  /\ profile'.skills_mastered = profile.skills_mastered + 1
          /\ \A i \in 1..Len(profile'.completed_courses) :
                \A j \in 1..Len(profile'.completed_courses) :
                   i # j => profile'.completed_courses[i] # profile'.completed_courses[j]]_vars

\* C26 witness: a request for X, which was in the list, got the success
\* response and saved nothing: the list holds X once, after Y, and the
\* hours and skills are those of two courses.
C26_Witness ==
    /\ last_response.view = "mark_completed_view" /\ last_response.status = 200
    /\ last_response.title = <<"X">> /\ ~last_response.saved
    /\ profile.completed_courses = <<<<"Y">>, <<"X">>>>
    /\ profile.learning_hours = 4 /\ profile.skills_mastered = 2
    /\ Len(activities) = 1 /\ activities[1].learning_hours = 4

----------------------------------------------------------------------------
(* Claims on the Flask endpoints of app.py *)

\* forgot_password has answered a request in this step
ForgotAnswers == forgot_response'.turn # forgot_response.turn

\* the request just answered had an email that is well-formed once it is
\* sanitized and in lower case
WellFormedEmail(response) ==
    /\ response.email.type = "str"
    /\ response.email.val # << >>
    /\ is_valid_email(response.email.val)

\* the documents differ in nothing but the reset token and its expiry
SameButToken(new, old) ==
    [new EXCEPT !.reset_token = old.reset_token,
                !.reset_token_expires = old.reset_token_expires] = old

ForgotMalformed400_Reached ==
    /\ forgot_response.turn
    /\ ~WellFormedEmail(forgot_response)
    /\ forgot_response.answer[1].status = 400

\* auth has answered a POST in this step
AuthAnswers ==
    /\ auth_response'.turn # auth_response.turn
    /\ auth_response'.method = "POST"

\* the failed attempts recorded for the address that are younger than
\* seconds at the time of the request
YoungAttempts(ip, seconds) ==
    {k \in 1..Len(login_attempts[ip]) : now - login_attempts[ip][k] < seconds}

LockedOut429_Reached ==
    /\ auth_response.method = "POST" /\ auth_response.ip = Client
    /\ auth_response.status = 429
    /\ now = 900
    /\ login_attempts[Client] = <<450, 450, 450, 450, 450>>
    /\ login_attempts[Other] # << >>

\* a signup and a login were let through and succeeded after failed attempts
LoggedInAfterFailures_Reached ==
    /\ auth_response.method = "POST" /\ auth_response.status = 200
    /\ auth_response.written /\ ~auth_response.recorded
    /\ Len(login_attempts[Client]) = 4

\* an OPTIONS request of a locked out address is answered 200
OptionsWhileLockedOut_Reached ==
    /\ auth_response.method = "OPTIONS" /\ auth_response.status = 200
    /\ Cardinality(YoungAttempts(Client, 900)) = 5

====
